---------------------------- MODULE Spec2Model ----------------------------
(***************************************************************************)
(* A model of the file-selection and commit orchestration of the Smart Git *)
(* extension: the selection store (FileSelectionService), the change       *)
(* enumeration, and GitService.commit / stageSelectedFiles / commitAndPush *)
(* with their fallback from the host Git API (primary client) to the       *)
(* standalone simple-git client (secondary client).                        *)
(*                                                                         *)
(* Paths are sequences of segments; an absolute path starts with "/".      *)
(* Every await on a client call is a point where another handler may run:  *)
(* each client call is one step of the attempt that issued it.             *)
(***************************************************************************)
EXTENDS Naturals, Sequences, FiniteSets

(***************************************************************************)
(* Bounds of the model.                                                    *)
(***************************************************************************)
\* number of commit attempts that can be in flight at the same time
NumAttempts == 1
\* number of files of the repository at the workspace root
NumFiles == 2

(***************************************************************************)
(* The workspace: one workspace folder, a repository at its root and a     *)
(* repository nested in a sub-folder of it.                                *)
(***************************************************************************)
WorkspaceFolder == <<"/", "w">>
RootMain == <<"/", "w">>
RootSub == <<"/", "w", "sub">>
Roots == {RootMain, RootSub}

FileNames == <<"a.txt", "b.txt", "c.txt", "d.txt">>

\* the files of a working tree: NumFiles in the main repository, one in the
\* nested one
FilesOf(root) ==
    IF root = RootMain
    THEN {root \o <<FileNames[n]>> : n \in 1..NumFiles}
    ELSE {root \o <<FileNames[1]>>}

Range(s) == {s[n] : n \in 1..Len(s)}

\* the sequences over S in which no element occurs twice
RECURSIVE SeqsNoDup(_)
SeqsNoDup(S) ==
    IF S = {} THEN {<<>>}
    ELSE {<<>>} \cup UNION {{<<x>> \o t : t \in SeqsNoDup(S \ {x})} : x \in S}

RECURSIVE Remove(_, _)
Remove(s, x) ==
    IF s = <<>> THEN <<>>
    ELSE IF Head(s) = x THEN Remove(Tail(s), x)
    ELSE <<Head(s)>> \o Remove(Tail(s), x)

\* Array.prototype.indexOf(x) > -1
Contains(s, x) == x \in Range(s)

\* Array.prototype.splice(indexOf(x), 1): removes the first occurrence
RECURSIVE SpliceFirst(_, _)
SpliceFirst(s, x) ==
    IF s = <<>> THEN <<>>
    ELSE IF Head(s) = x THEN Tail(s)
    ELSE <<Head(s)>> \o SpliceFirst(Tail(s), x)

\* [...new Set(paths)]: first occurrence of every path, in insertion order
RECURSIVE Unique(_)
Unique(s) ==
    IF s = <<>> THEN <<>>
    ELSE <<Head(s)>> \o Unique(Remove(Tail(s), Head(s)))

(***************************************************************************)
(* Strings: a commit message is a sequence of characters.                  *)
(***************************************************************************)
Whitespace == {" ", "\t", "\n"}

RECURSIVE TrimStart(_)
TrimStart(m) ==
    IF m = <<>> THEN <<>>
    ELSE IF Head(m) \in Whitespace THEN TrimStart(Tail(m))
    ELSE m

RECURSIVE TrimEnd(_)
TrimEnd(m) ==
    IF m = <<>> THEN <<>>
    ELSE IF m[Len(m)] \in Whitespace THEN TrimEnd(SubSeq(m, 1, Len(m) - 1))
    ELSE m

\* String.prototype.trim
Trim(m) == TrimEnd(TrimStart(m))

\* the messages a caller passes
Messages == {<<>>, <<" ">>, <<"f">>, <<" ", "w">>}

(***************************************************************************)
(* Path conversions.                                                       *)
(***************************************************************************)
IsPrefix(p, q) == Len(p) <= Len(q) /\ SubSeq(q, 1, Len(p)) = p

IsAbsolute(p) == p # <<>> /\ p[1] = "/"

\* vscode.workspace.asRelativePath(uri, false): the path relative to the
\* workspace folder that contains it, the path itself when none does
AsRelativePath(p) ==
    IF IsPrefix(WorkspaceFolder, p) /\ Len(p) > Len(WorkspaceFolder)
    THEN SubSeq(p, Len(WorkspaceFolder) + 1, Len(p))
    ELSE p

\* how the standalone client, whose working directory is the repository
\* root, resolves a path argument
ResolveIn(root, p) == IF IsAbsolute(p) THEN p ELSE root \o p


(***************************************************************************)
(* State.                                                                  *)
(***************************************************************************)
VARIABLES
    gitRepos,            \* gitApi.repositories: the open repositories, in order
    repositories,        \* GitService._repositories
    simpleGitInstances,  \* keys of GitService._simpleGitInstances
    listeners,           \* listeners registered on repo.state.onDidChange
    sel,                 \* workspaceState["selected-files:" + root]
    indexChanges,        \* repository.state.indexChanges, per root
    workingTreeChanges,  \* repository.state.workingTreeChanges, per root
    untrackedChanges,    \* repository.state.untrackedChanges, per root
    att,                 \* the commit attempts in flight
    storeLog,            \* the selection store's calls observed so far, in order
    svcCall              \* the service call observed on its own, with its result

vars == <<gitRepos, repositories, simpleGitInstances, listeners, sel,
          indexChanges, workingTreeChanges, untrackedChanges, att,
          storeLog, svcCall>>

gitVars == <<indexChanges, workingTreeChanges, untrackedChanges>>
repoVars == <<gitRepos, repositories, simpleGitInstances, listeners>>
callVars == <<storeLog, svcCall>>

\* no service call is under observation
NoCall == [fn |-> "none"]

Attempts == 1..NumAttempts

\* an attempt slot with no commit in flight
IdleAttempt ==
    [pc |-> "idle", repo |-> <<>>, message |-> <<>>, amend |-> FALSE,
     push |-> FALSE, files |-> <<>>, i |-> 0, sel0 |-> <<>>,
     interfered |-> FALSE, addFailedAt |-> 0, stagedBy |-> "none",
     secAdd |-> <<>>, priCommit |-> <<>>, priCommitFailed |-> FALSE,
     secCommit |-> <<>>, commitMade |-> "none",
     committedStaged |-> {}, shown |-> <<>>, fired |-> FALSE,
     pushed |-> "none", outcome |-> "none", threw |-> FALSE]

(***************************************************************************)
(* The change enumeration and the selection store (FileSelectionService).  *)
(***************************************************************************)
GetChangedFilesNoDedup(root) ==
    indexChanges[root] \o workingTreeChanges[root] \o untrackedChanges[root]

\* getChangedFiles: index, working tree and untracked changes, made unique
GetChangedFiles(root) ==
    Unique(indexChanges[root] \o workingTreeChanges[root] \o untrackedChanges[root])

\* getSelectedFiles: a fresh array of the stored paths
GetSelectedFiles(root) == sel[root]

ToggledSelectionPushes(s, f) == Append(s, f)

\* toggleFileSelection: the stored array with the path spliced out or pushed
ToggledSelection(s, f) == IF Contains(s, f) THEN SpliceFirst(s, f) ELSE Append(s, f)

SetSelectionToggles(s, f, isSelected) ==
    IF Contains(s, f) THEN SpliceFirst(s, f) ELSE Append(s, f)

SetSelectionPushes(s, f, isSelected) ==
    IF isSelected THEN Append(s, f)
    ELSE IF Contains(s, f) THEN SpliceFirst(s, f)
    ELSE s

\* setFileSelection
SetSelection(s, f, isSelected) ==
    IF isSelected /\ ~Contains(s, f) THEN Append(s, f)
    ELSE IF ~isSelected /\ Contains(s, f) THEN SpliceFirst(s, f)
    ELSE s

ClearSelectionKeep(store, root) == store

ClearSelectionWrongKey(store, root) ==
    [store EXCEPT ![CHOOSE r \in DOMAIN store : r # root] = <<>>]

ClearSelectionAll(store, root) == [r \in DOMAIN store |-> <<>>]

ClearSelectionHead(store, root) ==
    [store EXCEPT ![root] = IF @ = <<>> THEN <<>> ELSE Tail(@)]

\* clearSelection: workspaceState.update(key, [])
ClearSelection(store, root) == [store EXCEPT ![root] = <<>>]

\* every other attempt in flight on the repository sees its selection change
Interfere(a, root, k) ==
    [j \in DOMAIN a |->
        IF j # k /\ a[j].pc # "idle" /\ a[j].repo = root
        THEN [a[j] EXCEPT !.interfered = TRUE]
        ELSE a[j]]

ToggleFile(root, f) ==
    /\ Contains(repositories, root)
    /\ sel' = [sel EXCEPT ![root] = ToggledSelection(@, f)]
    /\ att' = Interfere(att, root, 0)
    /\ UNCHANGED <<repoVars, gitVars, callVars>>

SetFile(root, f, isSelected) ==
    /\ Contains(repositories, root)
    /\ sel' = [sel EXCEPT ![root] = SetSelection(@, f, isSelected)]
    /\ att' = Interfere(att, root, 0)
    /\ UNCHANGED <<repoVars, gitVars, callVars>>

(***************************************************************************)
(* GitService.updateRepositories, as run when the extension is activated.  *)
(***************************************************************************)
UpdateRepositories(g) ==
    /\ repositories' = g
    /\ simpleGitInstances' = simpleGitInstances \cup Range(g)
    /\ listeners' = [r \in Roots |->
                        IF r \in Range(g) THEN listeners[r] + 1 ELSE listeners[r]]

\* activate: await gitService.updateRepositories(), right after construction
Activate ==
    /\ repositories = <<>>
    /\ listeners = [r \in Roots |-> 0]
    /\ UpdateRepositories(gitRepos)
    /\ UNCHANGED <<gitRepos, sel, gitVars, att, callVars>>

(***************************************************************************)
(* The Git clients.  A call either fails and changes nothing or succeeds   *)
(* with Git's effect on the three change lists of the repository.          *)
(***************************************************************************)
GitState(root) ==
    [index |-> indexChanges[root], workingTree |-> workingTreeChanges[root],
     untracked |-> untrackedChanges[root]]

\* git add of one path: a path with changes outside the index enters the
\* index, a path without changes is left alone
GitAddOne(g, f) ==
    [index |-> IF (Contains(g.workingTree, f) \/ Contains(g.untracked, f))
                   /\ ~Contains(g.index, f)
               THEN Append(g.index, f) ELSE g.index,
     workingTree |-> Remove(g.workingTree, f),
     untracked |-> Remove(g.untracked, f)]

RECURSIVE GitAddAll(_, _)
GitAddAll(g, fs) ==
    IF fs = <<>> THEN g ELSE GitAddAll(GitAddOne(g, Head(fs)), Tail(fs))

SetGitState(root, g) ==
    /\ indexChanges' = [indexChanges EXCEPT ![root] = g.index]
    /\ workingTreeChanges' = [workingTreeChanges EXCEPT ![root] = g.workingTree]
    /\ untrackedChanges' = [untrackedChanges EXCEPT ![root] = g.untracked]

\* git commit records the index and empties it
GitCommitted(g) == [g EXCEPT !.index = <<>>]

\* git refuses a commit of an empty index unless it amends
GitCanCommit(root, amend) == amend \/ indexChanges[root] # <<>>

\* git add fails as a whole when a path argument names no file
GitCanAdd(root, paths) ==
    \A n \in 1..Len(paths) : ResolveIn(root, paths[n]) \in FilesOf(root)

(***************************************************************************)
(* User-visible messages.                                                  *)
(***************************************************************************)
InfoCommit == "info: Commit successful!"
ErrorCommit == "error: Commit failed"
InfoPush == "info: Push successful."
ErrorPush == "error: Push failed"

(***************************************************************************)
(* GitService.commit, stageSelectedFiles, stageWithSimpleGit,              *)
(* commitWithSimpleGit and commitAndPush.                                  *)
(***************************************************************************)
MessageRejectedIfEmpty(message) == message = <<>>

\* commit: if (!message.trim()) throw
MessageRejected(message) == Trim(message) = <<>>

ShouldStageAlways(amend) == TRUE

ShouldStageNever(amend) == FALSE

\* commit: if (!amend) await this.stageSelectedFiles(repository)
ShouldStage(amend) == ~amend

NothingToStageNever(selected, changed) == FALSE

\* stageSelectedFiles: no selection and no changed file: throw
NothingToStage(selected, changed) == selected = <<>> /\ changed = <<>>

StageListSelectedOnly(selected, changed) == selected

\* stageSelectedFiles: the selected files, all changed files when there are none
StageList(selected, changed) == IF selected = <<>> THEN changed ELSE selected

\* stageSelectedFiles: the list handed to stageWithSimpleGit after add
\* number i of the primary client failed
FallbackFiles(files, i) == files

\* stageWithSimpleGit: files.map(uri => asRelativePath(uri, false))
FallbackPaths(files) == [n \in 1..Len(files) |-> AsRelativePath(files[n])]

CommitCallNoAmend(message, amend) == [message |-> message, amend |-> FALSE]

\* the arguments of a commit call on either client
CommitCall(message, amend) == [message |-> message, amend |-> amend]

StoreAfterFailureCleared(store, root) == [store EXCEPT ![root] = <<>>]

\* commit's catch block: the selection store is not written
StoreAfterFailure(store, root) == store

\* commit's catch block: show the error and throw
CommitCatch(a) ==
    [a EXCEPT !.pc = "done", !.outcome = "FATAL", !.threw = TRUE,
              !.shown = Append(@, ErrorCommit)]

\* the primary client's commit call is issued
IssueCommit(a) ==
    [a EXCEPT !.pc = "commit", !.priCommit = Append(@, CommitCall(a.message, a.amend))]

\* a handler starts commit (push = FALSE) or commitAndPush (push = TRUE) on
\* the active repository and runs to its first client call
StartCommit(k, message, amend, push) ==
    /\ att[k].pc = "idle"
    /\ repositories # <<>>
    /\ LET root == repositories[1]
           selected == GetSelectedFiles(root)
           changed == GetChangedFiles(root)
           files == StageList(selected, changed)
           a == [IdleAttempt EXCEPT !.repo = root, !.message = message,
                                    !.amend = amend, !.push = push,
                                    !.sel0 = sel[root]]
       IN IF MessageRejected(message)
          THEN /\ att' = [att EXCEPT ![k] = [a EXCEPT !.pc = "done",
                                                       !.outcome = "REJECTED",
                                                       !.threw = TRUE]]
               /\ sel' = sel
          ELSE IF ~ShouldStage(amend)
          THEN /\ att' = [att EXCEPT ![k] = IssueCommit(a)]
               /\ sel' = sel
          ELSE IF NothingToStage(selected, changed)
          THEN /\ att' = [att EXCEPT ![k] = CommitCatch(a)]
               /\ sel' = StoreAfterFailure(sel, root)
          ELSE IF files = <<>>
          THEN /\ att' = [att EXCEPT ![k] = IssueCommit([a EXCEPT !.stagedBy = "primary"])]
               /\ sel' = sel
          ELSE /\ att' = [att EXCEPT ![k] = [a EXCEPT !.pc = "stage",
                                                       !.files = files, !.i = 1]]
               /\ sel' = sel
    /\ UNCHANGED <<repoVars, gitVars, callVars>>

\* the primary client's add of file number i returns or fails
PrimaryAdd(k, ok) ==
    /\ att[k].pc = "stage"
    /\ LET a == att[k]
           root == a.repo
       IN IF ok
          THEN /\ SetGitState(root, GitAddOne(GitState(root), a.files[a.i]))
               /\ att' = [att EXCEPT ![k] =
                            IF a.i < Len(a.files) THEN [a EXCEPT !.i = a.i + 1]
                            ELSE IssueCommit([a EXCEPT !.stagedBy = "primary"])]
               /\ sel' = sel
          ELSE /\ UNCHANGED gitVars
               /\ IF root \in simpleGitInstances
                  THEN /\ att' = [att EXCEPT ![k] =
                                    [a EXCEPT !.pc = "stageFallback",
                                              !.addFailedAt = a.i,
                                              !.secAdd = Append(@, FallbackPaths(FallbackFiles(a.files, a.i)))]]
                       /\ sel' = sel
                  ELSE /\ att' = [att EXCEPT ![k] = CommitCatch([a EXCEPT !.addFailedAt = a.i])]
                       /\ sel' = StoreAfterFailure(sel, root)
    /\ UNCHANGED <<repoVars, callVars>>

\* the secondary client's add of the whole list returns or fails
SecondaryAdd(k, ok) ==
    /\ att[k].pc = "stageFallback"
    /\ LET a == att[k]
           root == a.repo
           paths == a.secAdd[Len(a.secAdd)]
           resolved == [n \in 1..Len(paths) |-> ResolveIn(root, paths[n])]
       IN IF ok
          THEN /\ GitCanAdd(root, paths)
               /\ SetGitState(root, GitAddAll(GitState(root), resolved))
               /\ att' = [att EXCEPT ![k] = IssueCommit([a EXCEPT !.stagedBy = "secondary"])]
               /\ sel' = sel
          ELSE /\ UNCHANGED gitVars
               /\ att' = [att EXCEPT ![k] = CommitCatch(a)]
               /\ sel' = StoreAfterFailure(sel, root)
    /\ UNCHANGED <<repoVars, callVars>>

\* commit after either client committed: the acknowledgment is shown and
\* clearSelection writes the store; the handler waits for the write
CommitSucceeded(k, a, client) ==
    /\ SetGitState(a.repo, GitCommitted(GitState(a.repo)))
    /\ sel' = ClearSelection(sel, a.repo)
    /\ att' = [Interfere(att, a.repo, k) EXCEPT ![k] =
                 [a EXCEPT !.pc = "clear", !.commitMade = client,
                           !.committedStaged = Range(indexChanges[a.repo]),
                           !.shown = Append(@, InfoCommit)]]

\* the primary client's commit returns or fails
PrimaryCommit(k, ok) ==
    /\ att[k].pc = "commit"
    /\ LET a == att[k]
           root == a.repo
       IN IF ok
          THEN /\ GitCanCommit(root, a.amend)
               /\ CommitSucceeded(k, a, "primary")
          ELSE /\ UNCHANGED gitVars
               /\ IF root \in simpleGitInstances
                  THEN /\ att' = [att EXCEPT ![k] =
                                    [a EXCEPT !.pc = "commitFallback",
                                              !.priCommitFailed = TRUE,
                                              !.secCommit = Append(@, CommitCall(a.message, a.amend))]]
                       /\ sel' = sel
                  ELSE /\ att' = [att EXCEPT ![k] = CommitCatch([a EXCEPT !.priCommitFailed = TRUE])]
                       /\ sel' = StoreAfterFailure(sel, root)
    /\ UNCHANGED <<repoVars, callVars>>

\* the secondary client's commit returns or fails
SecondaryCommit(k, ok) ==
    /\ att[k].pc = "commitFallback"
    /\ LET a == att[k]
           root == a.repo
           call == a.secCommit[Len(a.secCommit)]
       IN IF ok
          THEN /\ GitCanCommit(root, call.amend)
               /\ CommitSucceeded(k, a, "secondary")
          ELSE /\ UNCHANGED gitVars
               /\ att' = [att EXCEPT ![k] = CommitCatch(a)]
               /\ sel' = StoreAfterFailure(sel, root)
    /\ UNCHANGED <<repoVars, callVars>>

\* the store write of clearSelection completed: the state-change event is
\* fired and commit returns; commitAndPush goes on to push
SelectionCleared(k) ==
    /\ att[k].pc = "clear"
    /\ att' = [att EXCEPT ![k] =
                 IF att[k].push
                 THEN [@ EXCEPT !.pc = "push", !.fired = TRUE, !.outcome = "COMMITTED"]
                 ELSE [@ EXCEPT !.pc = "done", !.fired = TRUE, !.outcome = "COMMITTED"]]
    /\ UNCHANGED <<repoVars, gitVars, sel, callVars>>

PushFailureThrows(a, ok) ==
    IF ok THEN [a EXCEPT !.pc = "done", !.pushed = "ok", !.shown = Append(@, InfoPush)]
    ELSE CommitCatch([a EXCEPT !.pushed = "failed"])

\* commitAndPush: push inside try / catch, the failure is shown, not thrown
PushResult(a, ok) ==
    IF ok THEN [a EXCEPT !.pc = "done", !.pushed = "ok", !.shown = Append(@, InfoPush)]
    ELSE [a EXCEPT !.pc = "done", !.pushed = "failed", !.shown = Append(@, ErrorPush)]

\* repository.push returns or fails
Push(k, ok) ==
    /\ att[k].pc = "push"
    /\ att' = [att EXCEPT ![k] = PushResult(att[k], ok)]
    /\ UNCHANGED <<repoVars, gitVars, sel, callVars>>

\* the handler's promise settles
Return(k) ==
    /\ att[k].pc = "done"
    /\ att' = [att EXCEPT ![k] = IdleAttempt]
    /\ UNCHANGED <<repoVars, gitVars, sel, callVars>>

(***************************************************************************)
(* Specification.                                                          *)
(***************************************************************************)
\* the change lists a working tree can show: a file is clean, modified,
\* untracked, staged, or staged and modified again
GitStates(root) ==
    {g \in [index : SeqsNoDup(FilesOf(root)), workingTree : SeqsNoDup(FilesOf(root)),
            untracked : SeqsNoDup(FilesOf(root))] :
        /\ Range(g.untracked) \cap (Range(g.index) \cup Range(g.workingTree)) = {}
        /\ \A n \in 1..(Len(g.index) - 1) : \E m \in 1..Len(FileNames) :
               \E m2 \in (m+1)..Len(FileNames) :
                   g.index[n][Len(g.index[n])] = FileNames[m]
                   /\ g.index[n+1][Len(g.index[n+1])] = FileNames[m2]
        /\ \A n \in 1..(Len(g.workingTree) - 1) : \E m \in 1..Len(FileNames) :
               \E m2 \in (m+1)..Len(FileNames) :
                   g.workingTree[n][Len(g.workingTree[n])] = FileNames[m]
                   /\ g.workingTree[n+1][Len(g.workingTree[n+1])] = FileNames[m2]
        /\ \A n \in 1..(Len(g.untracked) - 1) : \E m \in 1..Len(FileNames) :
               \E m2 \in (m+1)..Len(FileNames) :
                   g.untracked[n][Len(g.untracked[n])] = FileNames[m]
                   /\ g.untracked[n+1][Len(g.untracked[n+1])] = FileNames[m2]}

\* the state after new GitService(gitApi, context): the host already knows
\* its repositories, the service has not read them yet
Init ==
    /\ gitRepos \in {g \in SeqsNoDup(Roots) : Len(g) = Cardinality(Roots)}
    /\ repositories = <<>>
    /\ simpleGitInstances = {}
    /\ listeners = [r \in Roots |-> 0]
    /\ sel = [r \in Roots |-> <<>>]
    /\ \E gs \in [Roots -> UNION {GitStates(r) : r \in Roots}] :
          /\ \A r \in Roots : gs[r] \in GitStates(r)
          /\ indexChanges = [r \in Roots |-> gs[r].index]
          /\ workingTreeChanges = [r \in Roots |-> gs[r].workingTree]
          /\ untrackedChanges = [r \in Roots |-> gs[r].untracked]
    /\ att = [k \in Attempts |-> IdleAttempt]
    /\ storeLog = <<>>
    /\ svcCall = NoCall

\* the selection and commit handlers, once the extension is activated
Next ==
    \/ Activate
    \/ \E r \in Roots : \E f \in FilesOf(r) : ToggleFile(r, f)
    \/ \E r \in Roots : \E f \in FilesOf(r) : \E b \in BOOLEAN : SetFile(r, f, b)
    \/ \E k \in DOMAIN att : \E m \in Messages : \E amend \in BOOLEAN :
          \E push \in BOOLEAN : StartCommit(k, m, amend, push)
    \/ \E k \in DOMAIN att : \E ok \in BOOLEAN : PrimaryAdd(k, ok)
    \/ \E k \in DOMAIN att : \E ok \in BOOLEAN : SecondaryAdd(k, ok)
    \/ \E k \in DOMAIN att : \E ok \in BOOLEAN : PrimaryCommit(k, ok)
    \/ \E k \in DOMAIN att : \E ok \in BOOLEAN : SecondaryCommit(k, ok)
    \/ \E k \in DOMAIN att : SelectionCleared(k)
    \/ \E k \in DOMAIN att : \E ok \in BOOLEAN : Push(k, ok)
    \/ \E k \in DOMAIN att : Return(k)

Spec == Init /\ [][Next]_vars

(***************************************************************************)
(* Views of an attempt used by the properties below.                       *)
(***************************************************************************)
\* the paths of the add calls issued on the primary client, in order
PrimaryAddCalls(a) == SubSeq(a.files, 1, a.i)

\* no call was issued on either client
NoClientCall(a) ==
    /\ PrimaryAddCalls(a) = <<>>
    /\ a.secAdd = <<>>
    /\ a.priCommit = <<>>
    /\ a.secCommit = <<>>
    /\ a.pushed = "none"
    /\ a.pc \notin {"stage", "stageFallback", "commit", "commitFallback", "push"}

\* the message is empty or holds whitespace only
Blank(m) == \A n \in 1..Len(m) : m[n] \in Whitespace

\* q ends with p
IsSuffix(p, q) == Len(p) <= Len(q) /\ SubSeq(q, Len(q) - Len(p) + 1, Len(q)) = p

\* handler k starts an attempt in this step
Starts(k) == att[k].pc = "idle" /\ att'[k].pc # "idle"

\* the three change lists of the repository are empty
NoChanges(root) ==
    indexChanges[root] = <<>> /\ workingTreeChanges[root] = <<>>
    /\ untrackedChanges[root] = <<>>

(***************************************************************************)
(* C1.  A non-amend commit attempt with a non-empty selection S whose      *)
(* staging through the primary client succeeded produces a commit that     *)
(* holds exactly the files of S.                                           *)
(***************************************************************************)
C1_CommitHoldsExactlySelection ==
    \A k \in DOMAIN att :
        LET a == att[k] IN
        (~a.amend /\ a.sel0 # <<>> /\ a.stagedBy = "primary" /\ a.commitMade # "none")
            => a.committedStaged = Range(a.sel0)

(***************************************************************************)
(* C2.  A commit with an empty or whitespace-only message is rejected in   *)
(* the step that starts it: no staging and no commit call is issued on     *)
(* either client, and the selection store and the index stay as they were. *)
(***************************************************************************)
C2_BlankMessageRejected ==
    [][\A k \in DOMAIN att :
          (Starts(k) /\ Blank(att'[k].message))
              => /\ att'[k].pc = "done"
                 /\ att'[k].outcome = "REJECTED"
                 /\ att'[k].threw
                 /\ NoClientCall(att'[k])
                 /\ sel' = sel
                 /\ UNCHANGED gitVars]_vars

C2_Witness ==
    \E k \in DOMAIN att :
        /\ att[k].outcome = "REJECTED"
        /\ att[k].message = <<" ">>
        /\ sel[att[k].repo] # <<>>
        /\ indexChanges[att[k].repo] # <<>>

C4_NothingToStageAborts ==
    [][\A k \in DOMAIN att :
          (Starts(k) /\ ~Blank(att'[k].message) /\ ~att'[k].amend
             /\ sel[att'[k].repo] = <<>> /\ NoChanges(att'[k].repo))
              => /\ att'[k].pc = "done"
                 /\ att'[k].outcome = "FATAL"
                 /\ att'[k].threw
                 /\ att'[k].shown = <<ErrorCommit>>
                 /\ NoClientCall(att'[k])
                 /\ sel' = sel
                 /\ UNCHANGED gitVars]_vars

C4_Witness ==
    \E k \in DOMAIN att :
        LET a == att[k] IN
        /\ a.pc = "done" /\ a.outcome = "FATAL" /\ ~a.amend
        /\ a.sel0 = <<>> /\ a.files = <<>> /\ a.priCommit = <<>>
        /\ NoChanges(a.repo)

(***************************************************************************)
(* C5.  After an add call of the primary client failed, the secondary      *)
(* client's add was invoked exactly once, with relative paths that name,   *)
(* in the secondary client's working directory, the same complete list of  *)
(* files the primary client was asked to stage; the primary client is not  *)
(* called again.                                                           *)
(***************************************************************************)
C5_FallbackStagesSameList ==
    \A k \in DOMAIN att :
        LET a == att[k] IN
        a.addFailedAt > 0
            => /\ Len(a.secAdd) = 1
               /\ Len(a.secAdd[1]) = Len(a.files)
               /\ \A n \in 1..Len(a.files) :
                     /\ ~IsAbsolute(a.secAdd[1][n])
                     /\ ResolveIn(a.repo, a.secAdd[1][n]) = a.files[n]
               /\ PrimaryAddCalls(a) = SubSeq(a.files, 1, a.addFailedAt)

(***************************************************************************)
(* C6.  When an attempt has ended in failure and no selection operation    *)
(* and no other attempt wrote the repository's selection meanwhile, the    *)
(* selection is the one the attempt started with.                          *)
(***************************************************************************)
C6_FailureKeepsSelection ==
    \A k \in DOMAIN att :
        LET a == att[k] IN
        (a.pc = "done" /\ a.outcome \in {"FATAL", "REJECTED"} /\ ~a.interfered)
            => sel[a.repo] = a.sel0

C6_Witness ==
    \E k \in DOMAIN att :
        LET a == att[k] IN
        /\ a.pc = "done" /\ a.outcome = "FATAL" /\ ~a.interfered
        /\ Len(a.sel0) = 2 /\ a.addFailedAt = 2 /\ a.priCommit = <<>>

(***************************************************************************)
(* C7.  After the primary client's commit failed, the secondary client's   *)
(* commit was invoked exactly once, with the message and the amend flag of *)
(* the attempt; when it failed too the attempt is fatal; the secondary     *)
(* client's commit is not invoked unless the primary client's failed.      *)
(***************************************************************************)
C7_CommitFallbackOnce ==
    \A k \in DOMAIN att :
        LET a == att[k] IN
        /\ a.priCommitFailed
             => /\ Len(a.priCommit) = 1
                /\ a.secCommit = <<[message |-> a.message, amend |-> a.amend]>>
                /\ a.priCommit = a.secCommit
                /\ a.commitMade \in {"none", "secondary"}
        /\ a.secCommit # <<>> => a.priCommitFailed
        /\ a.commitMade = "primary" => a.secCommit = <<>>
        /\ (a.pc = "done" /\ a.priCommitFailed /\ a.commitMade = "none")
             => (a.outcome = "FATAL" /\ a.threw)
        /\ (a.priCommitFailed /\ a.commitMade = "none")
             => a.pc \in {"commitFallback", "done"}

C7_Witness ==
    \E k \in DOMAIN att :
        LET a == att[k] IN
        /\ a.priCommitFailed /\ a.amend /\ a.message = <<" ", "w">>
        /\ a.pc = "done" /\ a.outcome = "FATAL"

(***************************************************************************)
(* C8.  An attempt that amends issues no add call, on the primary or on    *)
(* the secondary client, whatever the selection and the changes are.       *)
(***************************************************************************)
C8_AmendSkipsStaging ==
    \A k \in DOMAIN att :
        LET a == att[k] IN
        (a.pc # "idle" /\ a.amend)
            => /\ PrimaryAddCalls(a) = <<>>
               /\ a.secAdd = <<>>
               /\ a.pc \notin {"stage", "stageFallback"}
               /\ a.stagedBy = "none"

C8_Witness ==
    \E k \in DOMAIN att :
        LET a == att[k] IN
        /\ a.amend /\ a.commitMade # "none"
        /\ a.sel0 = <<>> /\ NoChanges(a.repo) /\ a.committedStaged = {}

C10_PushFailureKeepsCommit ==
    [][\A k \in DOMAIN att :
          /\ att'[k].pushed = "failed"
               => /\ ~att'[k].threw
                  /\ att'[k].outcome = "COMMITTED"
                  /\ att'[k].commitMade # "none"
                  /\ ErrorPush \in Range(att'[k].shown)
                  /\ ErrorCommit \notin Range(att'[k].shown)
                  /\ InfoPush \notin Range(att'[k].shown)
          /\ (att[k].pc = "push" /\ att'[k].pc # "push")
               => /\ sel' = sel
                  /\ UNCHANGED gitVars
                  /\ att'[k].pushed # "none"
                  /\ att'[k].commitMade = att[k].commitMade
                  /\ att'[k].committedStaged = att[k].committedStaged
          /\ (att'[k].pc = "push" \/ att'[k].pushed # "none")
               => /\ att'[k].push
                  /\ att'[k].commitMade # "none"
                  /\ att'[k].outcome = "COMMITTED"
          /\ (att'[k].pc = "done" /\ att'[k].push /\ att'[k].commitMade = "none")
               => /\ att'[k].pushed = "none"
                  /\ att'[k].threw]_vars

C10_Witness ==
    \E k \in DOMAIN att :
        LET a == att[k] IN
        /\ a.pc = "done" /\ a.push /\ a.pushed = "failed"
        /\ a.sel0 # <<>> /\ a.committedStaged # {} /\ sel[a.repo] = <<>>


(***************************************************************************)
(* The selection store on its own: every stored selection the handlers     *)
(* can leave behind, and the calls of FileSelectionService one after the   *)
(* other, each logged with the store before and after it.                  *)
(***************************************************************************)
MaxCalls == 2

\* both repositories open and known to the service, no commit in flight
Activated ==
    /\ gitRepos = <<RootMain, RootSub>>
    /\ repositories = gitRepos
    /\ simpleGitInstances = Roots
    /\ listeners = [r \in Roots |-> 1]
    /\ att = [k \in Attempts |-> IdleAttempt]

\* the working trees hold no change
CleanTrees ==
    /\ indexChanges = [r \in Roots |-> <<>>]
    /\ workingTreeChanges = [r \in Roots |-> <<>>]
    /\ untrackedChanges = [r \in Roots |-> <<>>]

\* the arrays toggleFileSelection and setFileSelection can leave under a key
Stores == {s \in [Roots -> SeqsNoDup(UNION {FilesOf(r) : r \in Roots})] :
              \A r \in Roots : Range(s[r]) \subseteq FilesOf(r)}

StoreCall(op, root, f, included, after, result) ==
    [op |-> op, repo |-> root, path |-> f, included |-> included,
     before |-> sel, after |-> after, result |-> result]

\* await toggleFileSelection(fileUri, repoUri)
StoreToggle(root, f) ==
    /\ Len(storeLog) < MaxCalls
    /\ sel' = [sel EXCEPT ![root] = ToggledSelection(@, f)]
    /\ storeLog' = Append(storeLog, StoreCall("toggle", root, f, FALSE, sel', <<>>))

\* await setFileSelection(fileUri, repoUri, isSelected)
StoreSet(root, f, isSelected) ==
    /\ Len(storeLog) < MaxCalls
    /\ sel' = [sel EXCEPT ![root] = SetSelection(@, f, isSelected)]
    /\ storeLog' = Append(storeLog, StoreCall("set", root, f, isSelected, sel', <<>>))

\* await clearSelection(repoUri)
StoreClear(root) ==
    /\ Len(storeLog) < MaxCalls
    /\ sel' = ClearSelection(sel, root)
    /\ storeLog' = Append(storeLog, StoreCall("clear", root, <<>>, FALSE, sel', <<>>))

\* getSelectedFiles(repoUri)
StoreGet(root) ==
    /\ Len(storeLog) < MaxCalls
    /\ sel' = sel
    /\ storeLog' = Append(storeLog,
                      StoreCall("get", root, <<>>, FALSE, sel, GetSelectedFiles(root)))

InitStore ==
    /\ Activated
    /\ CleanTrees
    /\ sel \in Stores
    /\ storeLog = <<>>
    /\ svcCall = NoCall

NextStore ==
    /\ \/ \E r \in Roots : \E f \in FilesOf(r) : StoreToggle(r, f)
       \/ \E r \in Roots : \E f \in FilesOf(r) : \E b \in BOOLEAN : StoreSet(r, f, b)
       \/ \E r \in Roots : StoreClear(r)
       \/ \E r \in Roots : StoreGet(r)
    /\ UNCHANGED <<repoVars, gitVars, att, svcCall>>

SpecStore == InitStore /\ [][NextStore]_vars

\* calls n and n+1 of the log are the same operation on the same repository
\* and path
InARow(n, op1, op2) ==
    /\ n + 1 <= Len(storeLog)
    /\ storeLog[n].op = op1
    /\ storeLog[n+1].op = op2
    /\ storeLog[n+1].repo = storeLog[n].repo
    /\ storeLog[n+1].path = storeLog[n].path

(***************************************************************************)
(* C11.  Two toggles of the same path of the same repository, one right    *)
(* after the other, leave the set of selected paths of that repository as  *)
(* it was before the first.                                                *)
(***************************************************************************)
C11_ToggleTwiceRestoresSet ==
    \A n \in 1..Len(storeLog) :
        InARow(n, "toggle", "toggle") =>
            Range(storeLog[n+1].after[storeLog[n].repo])
                = Range(storeLog[n].before[storeLog[n].repo])

\* a selected path that was not the last of the array was toggled twice:
\* the array comes back in another order, the set is the same
C11_Witness ==
    \E n \in 1..Len(storeLog) :
        /\ InARow(n, "toggle", "toggle")
        /\ Contains(storeLog[n].before[storeLog[n].repo], storeLog[n].path)
        /\ storeLog[n+1].after # storeLog[n].before

(***************************************************************************)
(* C12.  getSelectedFiles called right after clearSelection on the same    *)
(* repository returns no path, whatever was stored before.                 *)
(***************************************************************************)
C12_ClearThenGetEmpty ==
    \A n \in 1..Len(storeLog) :
        InARow(n, "clear", "get") => storeLog[n+1].result = <<>>

C12_Witness ==
    \E n \in 1..Len(storeLog) :
        /\ InARow(n, "clear", "get")
        /\ storeLog[n].before[storeLog[n].repo] # <<>>
        /\ storeLog[n+1].result = <<>>

(***************************************************************************)
(* C13.  After setFileSelection(path, repo, b) the path is selected in the *)
(* repository exactly when b is true, and a call that asks for the state   *)
(* the path already has leaves the set of selected paths as it was.        *)
(***************************************************************************)
C13_SetIdempotent ==
    \A n \in 1..Len(storeLog) :
        storeLog[n].op = "set" =>
            LET c == storeLog[n]
                was == c.before[c.repo]
                now == c.after[c.repo]
            IN  /\ Contains(now, c.path) <=> c.included
                /\ (Contains(was, c.path) <=> c.included) => Range(now) = Range(was)
                /\ InARow(n, "set", "set") /\ storeLog[n+1].included = c.included
                       => storeLog[n+1].after = c.after

\* the same set call was made twice in a row, the first one changing the store
C13_Witness ==
    \E n \in 1..Len(storeLog) :
        /\ InARow(n, "set", "set")
        /\ storeLog[n+1].included = storeLog[n].included
        /\ storeLog[n].after # storeLog[n].before
        /\ storeLog[n+1].after = storeLog[n].after


(***************************************************************************)
(* C14.  A toggle, a set, and every step of a commit attempt on one        *)
(* repository, the clearing of its selection after a successful commit     *)
(* included, leave the stored selection of every other repository as it    *)
(* was.                                                                    *)
(***************************************************************************)
\* the step is a step of a commit attempt on the repository
CommitStepOn(root) ==
    \E k \in DOMAIN att :
        /\ att[k].repo = root \/ att'[k].repo = root
        /\ \/ \E m \in Messages : \E amend \in BOOLEAN : \E push \in BOOLEAN :
                 StartCommit(k, m, amend, push)
           \/ \E ok \in BOOLEAN : PrimaryAdd(k, ok)
           \/ \E ok \in BOOLEAN : SecondaryAdd(k, ok)
           \/ \E ok \in BOOLEAN : PrimaryCommit(k, ok)
           \/ \E ok \in BOOLEAN : SecondaryCommit(k, ok)
           \/ SelectionCleared(k)
           \/ \E ok \in BOOLEAN : Push(k, ok)
           \/ Return(k)

\* the step is a toggle, a set or a step of a commit attempt on the repository
OperationOn(root) ==
    \/ \E f \in FilesOf(root) : ToggleFile(root, f)
    \/ \E f \in FilesOf(root) : \E b \in BOOLEAN : SetFile(root, f, b)
    \/ CommitStepOn(root)

\* C14: an operation on one repository leaves the selection of every other
\* repository unchanged (the unchanged selection is written first: no step
\* that changes the selection of one repository is an operation on another)
C14_SelectionScopedPerRepository ==
    [][\A root \in Roots : \A other \in Roots \ {root} :
          sel'[other] = sel[other] \/ ~OperationOn(root)]_vars

\* a commit on one repository succeeded and cleared its selection while
\* another repository keeps a selection
C14_Witness ==
    \E k \in DOMAIN att :
        LET a == att[k] IN
        /\ a.pc = "clear" /\ a.commitMade # "none"
        /\ a.sel0 # <<>> /\ sel[a.repo] = <<>>
        /\ \E other \in Roots \ {a.repo} : sel[other] # <<>>


(***************************************************************************)
(* The change enumeration on its own, called with every repository handle  *)
(* the validation code reckons with: no handle at all, and a handle that   *)
(* lacks its root, its add or commit method or its state.                  *)
(***************************************************************************)
UndefinedHandle ==
    [defined |-> FALSE, root |-> <<>>, rootUri |-> FALSE, add |-> FALSE,
     commit |-> FALSE, state |-> FALSE]

Handles ==
    {UndefinedHandle} \cup
    [defined : {TRUE}, root : Roots, rootUri : BOOLEAN, add : BOOLEAN,
     commit : BOOLEAN, state : BOOLEAN]

\* an async method's promise: fulfilled with a value or rejected
Fulfilled(value) == [threw |-> FALSE, value |-> value]
Rejected(error) == [threw |-> TRUE, value |-> error]

\* getChangedFiles(repository): reading repository.state.indexChanges off a
\* missing handle or a missing state is a TypeError
GetChangedFilesOf(repository) ==
    IF ~repository.defined \/ ~repository.state
    THEN Rejected("TypeError")
    ELSE Fulfilled(GetChangedFiles(repository.root))

\* await getChangedFiles(repository)
ListChanges(repository) ==
    /\ svcCall.fn = "none"
    /\ svcCall' = [fn |-> "getChangedFiles", repository |-> repository,
                   settled |-> GetChangedFilesOf(repository)]
    /\ UNCHANGED <<repoVars, gitVars, sel, att, storeLog>>

InitChanges ==
    /\ Activated
    /\ sel = [r \in Roots |-> <<>>]
    /\ \E gs \in [Roots -> UNION {GitStates(r) : r \in Roots}] :
          /\ \A r \in Roots : gs[r] \in GitStates(r)
          /\ indexChanges = [r \in Roots |-> gs[r].index]
          /\ workingTreeChanges = [r \in Roots |-> gs[r].workingTree]
          /\ untrackedChanges = [r \in Roots |-> gs[r].untracked]
    /\ storeLog = <<>>
    /\ svcCall = NoCall

NextChanges == \E h \in Handles : ListChanges(h)

SpecChanges == InitChanges /\ [][NextChanges]_vars

\* the position of the first occurrence of x in s
FirstIndex(s, x) == CHOOSE n \in 1..Len(s) : s[n] = x /\ \A m \in 1..(n-1) : s[m] # x

\* the three categories of a repository, in the order the host lists them
Categories(root) ==
    indexChanges[root] \o workingTreeChanges[root] \o untrackedChanges[root]

(***************************************************************************)
(* C15.  The list getChangedFiles returns for a repository holds no path   *)
(* twice, holds exactly the paths of the index, working-tree and untracked *)
(* changes, and orders them by their first occurrence in index, working    *)
(* tree, untracked.                                                        *)
(***************************************************************************)
C15_ChangesUniqueFirstOccurrence ==
    svcCall.fn = "getChangedFiles" /\ ~svcCall.settled.threw =>
        LET l == svcCall.settled.value
            all == Categories(svcCall.repository.root)
        IN  /\ \A i, j \in 1..Len(l) : l[i] = l[j] => i = j
            /\ Range(l) = Range(all)
            /\ \A i, j \in 1..Len(l) :
                   i < j => FirstIndex(all, l[i]) < FirstIndex(all, l[j])

\* a file staged and modified again is listed once, and a file met first in
\* a later category comes after it
C15_Witness ==
    /\ svcCall.fn = "getChangedFiles" /\ ~svcCall.settled.threw
    /\ LET root == svcCall.repository.root IN
       /\ Range(indexChanges[root]) \cap Range(workingTreeChanges[root]) # {}
       /\ Len(svcCall.settled.value) < Len(Categories(root))
       /\ Len(svcCall.settled.value) > 1

(***************************************************************************)
(* C16.  Called with a repository handle that is missing or has no state,  *)
(* getChangedFiles returns the empty list and does not throw.              *)
(***************************************************************************)
C16_InvalidHandleListsNothing ==
    (svcCall.fn = "getChangedFiles"
        /\ (~svcCall.repository.defined \/ ~svcCall.repository.state))
    => (~svcCall.settled.threw /\ svcCall.settled.value = <<>>)


(***************************************************************************)
(* The diff reader (GitDiffService.getFileDiff).  A string is held as the  *)
(* sequence of its lines, the pieces split('\n') gives and join('\n')      *)
(* puts together again; the empty string is the one empty line.            *)
(***************************************************************************)
MaxLines == 52

\* the line lengths tried: around the 2000 characters of a 50-line text,
\* and single lines beyond them
LineLengths == {0, 1, 39, 40, 2001, 3000}

\* a line of n characters
RECURSIVE Chars(_)
Chars(n) ==
    IF n = 0 THEN ""
    ELSE IF n % 2 = 0 THEN LET half == Chars(n \div 2) IN half \o half
    ELSE "x" \o Chars(n - 1)

\* n lines of len characters each, with or without a final newline
Text(n, len, finalNewline) ==
    [i \in 1..n |-> Chars(len)] \o (IF finalNewline THEN <<"">> ELSE <<>>)

Texts == {Text(n, len, nl) : n \in 1..MaxLines, len \in LineLengths, nl \in BOOLEAN}

\* String.prototype.length of the joined lines
RECURSIVE StrLen(_)
StrLen(lines) ==
    IF lines = <<>> THEN 0
    ELSE IF Len(lines) = 1 THEN Len(lines[1])
    ELSE Len(Head(lines)) + 1 + StrLen(Tail(lines))

\* Array.prototype.slice(0, n)
Slice(lines, n) == SubSeq(lines, 1, IF Len(lines) < n THEN Len(lines) ELSE n)

\* the path as a string, its segments joined with "/"
RECURSIVE PathString(_)
PathString(p) ==
    IF p = <<>> THEN ""
    ELSE IF Len(p) = 1 THEN p[1]
    ELSE p[1] \o "/" \o PathString(Tail(p))

DiffCap == 2000
DiffLines == 50
NewFileLines == 50
DiffMarker == "... (diff truncated for AI analysis)"
NewFileMarker == "... (truncated)"

\* `${changeType}: ${relativePath}`
Placeholder(changeType, relativePath) == <<changeType \o ": " \o relativePath>>

\* getGitDiff, once git.diff returned: the diff or, for an empty one, the
\* placeholder; beyond 2000 characters its first 50 lines and the marker
GitDiffText(gitDiff, changeType, relativePath) ==
    LET diff == IF gitDiff = <<"">> THEN Placeholder(changeType, relativePath)
                ELSE gitDiff
    IN  IF StrLen(diff) > DiffCap
        THEN Slice(diff, DiffLines) \o <<DiffMarker>>
        ELSE diff

GitDiffFailedThrows(changeType, relativePath) == Rejected("gitError")

\* getGitDiff, when git.diff failed: the error is logged and the
\* placeholder returned
GitDiffFailed(changeType, relativePath) ==
    Fulfilled(Placeholder(changeType, relativePath))

NewFileDiffTextFrom50(content, relativePath) ==
    <<"+++ " \o relativePath>>
        \o Slice([i \in 1..Len(content) |-> "+" \o content[i]], NewFileLines)
        \o (IF Len(content) >= NewFileLines THEN <<NewFileMarker>> ELSE <<>>)

\* getNewFileDiff, once the document is open: a header, the first 50 lines
\* with a "+" each, and the marker for a content of more than 50 lines
NewFileDiffText(content, relativePath) ==
    <<"+++ " \o relativePath>>
        \o Slice([i \in 1..Len(content) |-> "+" \o content[i]], NewFileLines)
        \o (IF Len(content) > NewFileLines THEN <<NewFileMarker>> ELSE <<>>)

\* getNewFileDiff, when the document cannot be opened
NewFileUnreadable(relativePath) == <<"New file: " \o relativePath>>

ChangeTypes == {"A", "M", "D", "U"}

\* getFileDiff(repository, fileUri, relativePath, changeType) is called
GetFileDiff(root, f, changeType) ==
    /\ svcCall.fn = "none"
    /\ LET relativePath == PathString(AsRelativePath(f))
           c == [fn |-> "getFileDiff", root |-> root, path |-> relativePath,
                 changeType |-> changeType, pc |-> "done", gitDiffCalls |-> 0,
                 opened |-> 0, failed |-> FALSE, source |-> <<>>,
                 settled |-> Fulfilled(<<>>)]
       IN svcCall' =
            IF changeType = "A" THEN [c EXCEPT !.pc = "open", !.opened = 1]
            ELSE IF root \in simpleGitInstances
            THEN [c EXCEPT !.pc = "diff", !.gitDiffCalls = 1]
            ELSE [c EXCEPT !.settled = Fulfilled(Placeholder(changeType, relativePath))]
    /\ UNCHANGED <<repoVars, gitVars, sel, att, storeLog>>

\* the call waits for the client or for the document
Awaiting(pc) == svcCall.fn = "getFileDiff" /\ svcCall.pc = pc

\* git.diff(['HEAD', '--', relativePath]) returns a diff or fails
GitDiffSettles(ok, gitDiff) ==
    /\ Awaiting("diff")
    /\ svcCall' =
         IF ok
         THEN [svcCall EXCEPT !.pc = "done", !.source = gitDiff,
                  !.settled = Fulfilled(GitDiffText(gitDiff, svcCall.changeType,
                                                    svcCall.path))]
         ELSE [svcCall EXCEPT !.pc = "done", !.failed = TRUE,
                  !.settled = GitDiffFailed(svcCall.changeType, svcCall.path)]
    /\ UNCHANGED <<repoVars, gitVars, sel, att, storeLog>>

\* openTextDocument(fileUri) gives the document of the file or fails
OpenSettles(ok, content) ==
    /\ Awaiting("open")
    /\ svcCall' =
         IF ok
         THEN [svcCall EXCEPT !.pc = "done", !.source = content,
                  !.settled = Fulfilled(NewFileDiffText(content, svcCall.path))]
         ELSE [svcCall EXCEPT !.pc = "done", !.source = content, !.failed = TRUE,
                  !.settled = Fulfilled(NewFileUnreadable(svcCall.path))]
    /\ UNCHANGED <<repoVars, gitVars, sel, att, storeLog>>

\* the service before the activation, after it, and with one of the
\* repositories opened and not yet seen by updateRepositories: the
\* standalone clients of none, all or one of the open repositories exist
InitDiff ==
    /\ gitRepos = <<RootMain, RootSub>>
    /\ simpleGitInstances \in SUBSET Roots
    /\ repositories = SelectSeq(gitRepos, LAMBDA r : r \in simpleGitInstances)
    /\ listeners = [r \in Roots |-> IF r \in simpleGitInstances THEN 1 ELSE 0]
    /\ att = [k \in Attempts |-> IdleAttempt]
    /\ CleanTrees
    /\ sel = [r \in Roots |-> <<>>]
    /\ storeLog = <<>>
    /\ svcCall = NoCall

NextDiff ==
    \/ \E r \in Roots : \E f \in FilesOf(r) : \E ct \in ChangeTypes : GetFileDiff(r, f, ct)
    \/ Awaiting("diff") /\ \E d \in Texts : GitDiffSettles(TRUE, d)
    \/ Awaiting("diff") /\ GitDiffSettles(FALSE, <<>>)
    \/ Awaiting("open") /\ \E ok \in BOOLEAN : \E d \in Texts : OpenSettles(ok, d)

SpecDiff == InitDiff /\ [][NextDiff]_vars


\* the call returned
Returned == svcCall.fn = "getFileDiff" /\ svcCall.pc = "done"

\* the last line of the text
LastLine(lines) == lines[Len(lines)]

(***************************************************************************)
(* C17.  For a change type other than "A", whatever the number and the     *)
(* length of the lines git.diff returns, the string getFileDiff returns    *)
(* is no longer than 2000 characters plus the newline and the truncation   *)
(* marker, and it ends with the marker whenever the diff was longer than   *)
(* 2000 characters.                                                        *)
(***************************************************************************)
C17_DiffWithinCap ==
    (Returned /\ svcCall.changeType # "A") =>
        LET out == svcCall.settled.value IN
        /\ StrLen(out) <= DiffCap + 1 + Len(DiffMarker)
        /\ (svcCall.source # <<>> /\ StrLen(svcCall.source) > DiffCap)
               => LastLine(out) = DiffMarker

(***************************************************************************)
(* C18.  As claimed: the diff made up for an added file holds at most 50   *)
(* lines before the truncation marker, and the marker is there exactly     *)
(* when the file has more than 50 lines.                                   *)
(***************************************************************************)
C18_NewFileDiffAtMost50Lines ==
    (Returned /\ svcCall.changeType = "A") =>
        LET out == svcCall.settled.value
            marked == LastLine(out) = NewFileMarker
            before == IF marked THEN Len(out) - 1 ELSE Len(out)
        IN  /\ before <= NewFileLines
            /\ marked <=> Len(svcCall.source) > NewFileLines

(***************************************************************************)
(* C18, amended.  When the file can be opened, the diff is the header line *)
(* "+++ <path>", then the first 50 lines of the content at most, each      *)
(* after a "+", then the truncation marker exactly when the content splits *)
(* at its newlines into more than 50 lines; when the file cannot be opened *)
(* the diff is the single line "New file: <path>" without a marker.        *)
(***************************************************************************)
C18_NewFileDiffHeaderAnd50Lines ==
    (Returned /\ svcCall.changeType = "A") =>
        LET out == svcCall.settled.value
            content == svcCall.source
            marked == LastLine(out) = NewFileMarker
            shown == (IF marked THEN Len(out) - 1 ELSE Len(out)) - 1
        IN  IF svcCall.failed
            THEN out = <<"New file: " \o svcCall.path>>
            ELSE /\ out[1] = "+++ " \o svcCall.path
                 /\ shown <= NewFileLines
                 /\ shown = Len(content) \/ shown = NewFileLines
                 /\ \A i \in 1..shown : out[i + 1] = "+" \o content[i]
                 /\ marked <=> Len(content) > NewFileLines

\* a file of more than 50 lines was opened: header, 50 lines, marker
C18_Witness ==
    /\ Returned /\ svcCall.changeType = "A" /\ ~svcCall.failed
    /\ Len(svcCall.source) > NewFileLines
    /\ Len(svcCall.settled.value) = NewFileLines + 2
    /\ LastLine(svcCall.settled.value) = NewFileMarker

(***************************************************************************)
(* C19.  getFileDiff does not throw and calls git.diff at most once; for a *)
(* change type other than "A", when the call of git.diff fails or the      *)
(* repository has no standalone client, it returns the single line         *)
(* "<changeType>: <path>".                                                 *)
(***************************************************************************)
C19_DiffPlaceholderNoThrow ==
    svcCall.fn = "getFileDiff" =>
        /\ svcCall.gitDiffCalls <= 1
        /\ Returned => ~svcCall.settled.threw
        /\ (/\ Returned
            /\ svcCall.changeType # "A"
            /\ svcCall.failed \/ svcCall.root \notin simpleGitInstances)
           => /\ svcCall.settled.value = <<svcCall.changeType \o ": " \o svcCall.path>>
              /\ svcCall.gitDiffCalls = (IF svcCall.failed THEN 1 ELSE 0)

\* the client's diff call failed and the placeholder came back
C19_Witness ==
    /\ Returned /\ svcCall.changeType = "D" /\ svcCall.failed
    /\ svcCall.gitDiffCalls = 1
    /\ ~svcCall.settled.threw
    /\ svcCall.settled.value = <<"D: sub/a.txt">>


(***************************************************************************)
(* The validation of a commit setup (GitValidationService).                *)
(***************************************************************************)
NoRepository == "No repository provided"
NoRootUri == "Repository has no root URI"
NoAdd == "Repository.add method not available"
NoCommit == "Repository.commit method not available"
NoSelection == "No files selected for commit"
NoValidSelection == "Selected files have no changes"
NoState == "Repository state is not available"

PushIssueFirstOnly(issues, failed, issue) ==
    IF failed /\ issues = <<>> THEN Append(issues, issue) ELSE issues

\* if (failed) { issues.push(issue); }
PushIssue(issues, failed, issue) ==
    IF failed THEN Append(issues, issue) ELSE issues

\* selectedFiles.filter(selected => changedFiles.some(changed => same path))
ValidSelectedFiles(selectedFiles, changedFiles) ==
    SelectSeq(selectedFiles, LAMBDA f : Contains(changedFiles, f))

\* validateCommitSetup(repository, selectedFiles, changedFiles); nothing in
\* its try block throws, logValidationResults reads only what was tested
ValidateCommitSetup(repository, selectedFiles, changedFiles) ==
    IF ~repository.defined
    THEN [isValid |-> FALSE, issues |-> <<NoRepository>>]
    ELSE IF ~repository.rootUri
    THEN [isValid |-> FALSE, issues |-> <<NoRootUri>>]
    ELSE LET i1 == PushIssue(<<>>, ~repository.add, NoAdd)
             i2 == PushIssue(i1, ~repository.commit, NoCommit)
             i3 == PushIssue(i2, Len(selectedFiles) = 0, NoSelection)
             valid == ValidSelectedFiles(selectedFiles, changedFiles)
             i4 == PushIssue(i3, Len(valid) = 0, NoValidSelection)
             i5 == PushIssue(i4, ~repository.state, NoState)
         IN  [isValid |-> Len(i5) = 0, issues |-> i5]

\* await validationService.validateCommitSetup(repository, selected, changed)
Validate(repository, selectedFiles, changedFiles) ==
    /\ svcCall.fn = "none"
    /\ svcCall' = [fn |-> "validateCommitSetup", repository |-> repository,
                   selectedFiles |-> selectedFiles, changedFiles |-> changedFiles,
                   settled |-> Fulfilled(ValidateCommitSetup(repository, selectedFiles,
                                                             changedFiles))]
    /\ UNCHANGED <<repoVars, gitVars, sel, att, storeLog>>

InitValidate ==
    /\ Activated
    /\ CleanTrees
    /\ sel = [r \in Roots |-> <<>>]
    /\ storeLog = <<>>
    /\ svcCall = NoCall

NextValidate ==
    \E h \in Handles : \E s \in SeqsNoDup(FilesOf(RootMain)) :
        \E c \in SeqsNoDup(FilesOf(RootMain)) : Validate(h, s, c)

SpecValidate == InitValidate /\ [][NextValidate]_vars

\* the five checks in their order, and the check an issue belongs to
CheckFails(n, repository, selectedFiles, changedFiles) ==
    CASE n = 1 -> ~repository.defined \/ ~repository.rootUri
      [] n = 2 -> ~repository.add \/ ~repository.commit
      [] n = 3 -> selectedFiles = <<>>
      [] n = 4 -> Range(selectedFiles) \cap Range(changedFiles) = {}
      [] n = 5 -> ~repository.state

CheckOf(issue) ==
    CASE issue \in {NoRepository, NoRootUri} -> 1
      [] issue \in {NoAdd, NoCommit} -> 2
      [] issue = NoSelection -> 3
      [] issue = NoValidSelection -> 4
      [] issue = NoState -> 5

\* the conditions tested once the handle and its root are there, in order
ConditionFails(issue, repository, selectedFiles, changedFiles) ==
    CASE issue = NoAdd -> ~repository.add
      [] issue = NoCommit -> ~repository.commit
      [] issue = NoSelection -> selectedFiles = <<>>
      [] issue = NoValidSelection -> Range(selectedFiles) \cap Range(changedFiles) = {}
      [] issue = NoState -> ~repository.state

ConditionOrder == <<NoAdd, NoCommit, NoSelection, NoValidSelection, NoState>>

Validated == svcCall.fn = "validateCommitSetup"

(***************************************************************************)
(* C20.  As claimed: the five checks (handle, client capability, non-empty *)
(* selection, selection meets the changes, state) are all evaluated, in    *)
(* that order, whichever of them fail: the issues are one entry for every  *)
(* failing check, in the order of the checks.                              *)
(***************************************************************************)
C20_AllFiveChecksNoShortCircuit ==
    Validated =>
        LET issues == svcCall.settled.value.issues IN
        /\ ~svcCall.settled.threw
        /\ \A i, j \in 1..Len(issues) : i < j => CheckOf(issues[i]) < CheckOf(issues[j])
        /\ {CheckOf(issues[i]) : i \in 1..Len(issues)}
              = {n \in 1..5 : CheckFails(n, svcCall.repository, svcCall.selectedFiles,
                                         svcCall.changedFiles)}

(***************************************************************************)
(* C20, amended.  A missing handle or a handle without root ends the       *)
(* validation at once with that single issue.  Otherwise the conditions    *)
(* add method, commit method, non-empty selection, selection meets the     *)
(* changes, state available are all evaluated in that order whichever of   *)
(* them fail: the issues are one entry for every failing condition, in     *)
(* that order, and the setup is valid exactly when there is none.  The     *)
(* validation does not throw.                                              *)
(***************************************************************************)
C20_ChecksAfterHandleNoShortCircuit ==
    Validated =>
        LET r == svcCall.settled.value
            h == svcCall.repository
            pos(issue) == CHOOSE n \in 1..Len(ConditionOrder) : ConditionOrder[n] = issue
        IN  /\ ~svcCall.settled.threw
            /\ r.isValid <=> r.issues = <<>>
            /\ IF ~h.defined THEN r.issues = <<NoRepository>>
               ELSE IF ~h.rootUri THEN r.issues = <<NoRootUri>>
               ELSE /\ Range(r.issues) =
                         {c \in Range(ConditionOrder) :
                             ConditionFails(c, h, svcCall.selectedFiles,
                                            svcCall.changedFiles)}
                    /\ \A i, j \in 1..Len(r.issues) :
                           i < j => pos(r.issues[i]) < pos(r.issues[j])

\* a handle with its root fails an early and a late condition, with a stale
\* selection in between: all three are reported
C20_Witness ==
    /\ Validated
    /\ svcCall.repository.defined /\ svcCall.repository.rootUri
    /\ svcCall.selectedFiles # <<>>
    /\ svcCall.settled.value.issues = <<NoAdd, NoValidSelection, NoState>>

(***************************************************************************)
(* The commit message generator (CommitMessageGenerator).  A text is the   *)
(* sequence of its characters, as the messages above: the keyword tests    *)
(* are substring tests on the lower-cased prompt.                          *)
(***************************************************************************)
UpperCase == <<"A", "B", "C", "D", "E", "F", "G", "H", "I", "J", "K", "L", "M",
               "N", "O", "P", "Q", "R", "S", "T", "U", "V", "W", "X", "Y", "Z">>
LowerCase == <<"a", "b", "c", "d", "e", "f", "g", "h", "i", "j", "k", "l", "m",
               "n", "o", "p", "q", "r", "s", "t", "u", "v", "w", "x", "y", "z">>

\* the lower-case letter of every upper-case letter
LowerOf ==
    [c \in {UpperCase[k] : k \in 1..Len(UpperCase)} |->
        LowerCase[CHOOSE k \in 1..Len(UpperCase) : UpperCase[k] = c]]

\* String.prototype.toLowerCase
ToLowerCase(text) ==
    [n \in 1..Len(text) |->
        IF text[n] \in DOMAIN LowerOf THEN LowerOf[text[n]] ELSE text[n]]

\* String.prototype.includes(keyword)
Includes(text, keyword) ==
    \E n \in 1..(Len(text) + 1 - Len(keyword)) :
        \A k \in 1..Len(keyword) : text[n + k - 1] = keyword[k]

\* String.prototype.startsWith, endsWith
StartsWith(text, s) == Len(s) <= Len(text) /\ SubSeq(text, 1, Len(s)) = s
EndsWith(text, s) ==
    Len(s) <= Len(text) /\ SubSeq(text, Len(text) + 1 - Len(s), Len(text)) = s

\* keywords.some(keyword => lowerPrompt.includes(keyword))
SomeIncluded(lowerPrompt, keywords) ==
    \E k \in 1..Len(keywords) : Includes(lowerPrompt, keywords[k])

\* typeMap of determineCommitType, in the order of its entries
TypeMap == <<
    \* fix: ['fix', 'bug', 'error']
    [type |-> <<"f", "i", "x">>,
     keywords |-> <<<<"f", "i", "x">>, <<"b", "u", "g">>, <<"e", "r", "r", "o", "r">>>>],
    \* test: ['test', 'spec']
    [type |-> <<"t", "e", "s", "t">>,
     keywords |-> <<<<"t", "e", "s", "t">>, <<"s", "p", "e", "c">>>>],
    \* docs: ['doc', 'readme', '.md']
    [type |-> <<"d", "o", "c", "s">>,
     keywords |-> <<<<"d", "o", "c">>, <<"r", "e", "a", "d", "m", "e">>, <<".", "m", "d">>>>],
    \* refactor: ['refactor', 'restructure']
    [type |-> <<"r", "e", "f", "a", "c", "t", "o", "r">>,
     keywords |-> <<<<"r", "e", "f", "a", "c", "t", "o", "r">>, <<"r", "e", "s", "t", "r", "u", "c", "t", "u", "r", "e">>>>],
    \* style: ['style', 'format']
    [type |-> <<"s", "t", "y", "l", "e">>,
     keywords |-> <<<<"s", "t", "y", "l", "e">>, <<"f", "o", "r", "m", "a", "t">>>>],
    \* chore: ['delete', 'remove']
    [type |-> <<"c", "h", "o", "r", "e">>,
     keywords |-> <<<<"d", "e", "l", "e", "t", "e">>, <<"r", "e", "m", "o", "v", "e">>>>]
>>

\* for (const [type, keywords] of Object.entries(typeMap)): the first entry
\* with an included keyword, 'feat' when there is none
RECURSIVE FirstType(_, _)
FirstType(lowerPrompt, entries) ==
    IF entries = <<>> THEN <<"f", "e", "a", "t">>
    ELSE IF SomeIncluded(lowerPrompt, Head(entries).keywords) THEN Head(entries).type
    ELSE FirstType(lowerPrompt, Tail(entries))

DetermineCommitTypeTestFirst(prompt) ==
    FirstType(ToLowerCase(prompt),
              <<TypeMap[2], TypeMap[1]>> \o SubSeq(TypeMap, 3, Len(TypeMap)))

DetermineCommitType(prompt) == FirstType(ToLowerCase(prompt), TypeMap)

\* scopeMap of determineScope, in the order of its entries
ScopeMap == <<
    \* deps: ['package.json']
    [scope |-> <<"d", "e", "p", "s">>,
     keywords |-> <<<<"p", "a", "c", "k", "a", "g", "e", ".", "j", "s", "o", "n">>>>],
    \* test: ['test', 'spec']
    [scope |-> <<"t", "e", "s", "t">>,
     keywords |-> <<<<"t", "e", "s", "t">>, <<"s", "p", "e", "c">>>>],
    \* docs: ['doc', 'readme']
    [scope |-> <<"d", "o", "c", "s">>,
     keywords |-> <<<<"d", "o", "c">>, <<"r", "e", "a", "d", "m", "e">>>>],
    \* config: ['config', '.json', '.yml']
    [scope |-> <<"c", "o", "n", "f", "i", "g">>,
     keywords |-> <<<<"c", "o", "n", "f", "i", "g">>, <<".", "j", "s", "o", "n">>, <<".", "y", "m", "l">>>>],
    \* ui: ['ui', 'component']
    [scope |-> <<"u", "i">>,
     keywords |-> <<<<"u", "i">>, <<"c", "o", "m", "p", "o", "n", "e", "n", "t">>>>],
    \* api: ['api', 'service']
    [scope |-> <<"a", "p", "i">>,
     keywords |-> <<<<"a", "p", "i">>, <<"s", "e", "r", "v", "i", "c", "e">>>>]
>>

\* the first entry with an included keyword, '' when there is none
RECURSIVE FirstScope(_, _)
FirstScope(lowerPrompt, entries) ==
    IF entries = <<>> THEN <<>>
    ELSE IF SomeIncluded(lowerPrompt, Head(entries).keywords) THEN Head(entries).scope
    ELSE FirstScope(lowerPrompt, Tail(entries))

DetermineScope(prompt) == FirstScope(ToLowerCase(prompt), ScopeMap)

\* getDescriptionMap().fix, in the order of its entries
FixDescriptions == <<
    \* bug: 'resolve critical bug'
    [keyword |-> <<"b", "u", "g">>,
     description |-> <<"r", "e", "s", "o", "l", "v", "e", " ", "c", "r", "i", "t", "i", "c", "a", "l", " ", "b", "u", "g">>],
    \* error: 'handle error cases'
    [keyword |-> <<"e", "r", "r", "o", "r">>,
     description |-> <<"h", "a", "n", "d", "l", "e", " ", "e", "r", "r", "o", "r", " ", "c", "a", "s", "e", "s">>]
>>

\* getDescriptionMap().feat, in the order of its entries
FeatDescriptions == <<
    \* add: 'add new feature'
    [keyword |-> <<"a", "d", "d">>,
     description |-> <<"a", "d", "d", " ", "n", "e", "w", " ", "f", "e", "a", "t", "u", "r", "e">>],
    \* implement: 'implement functionality'
    [keyword |-> <<"i", "m", "p", "l", "e", "m", "e", "n", "t">>,
     description |-> <<"i", "m", "p", "l", "e", "m", "e", "n", "t", " ", "f", "u", "n", "c", "t", "i", "o", "n", "a", "l", "i", "t", "y">>]
>>

\* descriptions[commitType]: undefined for every type but fix and feat
GetDescriptionMap(commitType) ==
    IF commitType = <<"f", "i", "x">> THEN FixDescriptions
    ELSE IF commitType = <<"f", "e", "a", "t">> THEN FeatDescriptions
    ELSE <<>>

\* the defaults of getDefaultDescription
DefaultDescriptions == <<
    \* feat: 'add new functionality'
    [type |-> <<"f", "e", "a", "t">>,
     description |-> <<"a", "d", "d", " ", "n", "e", "w", " ", "f", "u", "n", "c", "t", "i", "o", "n", "a", "l", "i", "t", "y">>],
    \* fix: 'resolve issues'
    [type |-> <<"f", "i", "x">>,
     description |-> <<"r", "e", "s", "o", "l", "v", "e", " ", "i", "s", "s", "u", "e", "s">>],
    \* docs: 'update documentation'
    [type |-> <<"d", "o", "c", "s">>,
     description |-> <<"u", "p", "d", "a", "t", "e", " ", "d", "o", "c", "u", "m", "e", "n", "t", "a", "t", "i", "o", "n">>],
    \* style: 'format code'
    [type |-> <<"s", "t", "y", "l", "e">>,
     description |-> <<"f", "o", "r", "m", "a", "t", " ", "c", "o", "d", "e">>],
    \* refactor: 'improve structure'
    [type |-> <<"r", "e", "f", "a", "c", "t", "o", "r">>,
     description |-> <<"i", "m", "p", "r", "o", "v", "e", " ", "s", "t", "r", "u", "c", "t", "u", "r", "e">>],
    \* test: 'add tests'
    [type |-> <<"t", "e", "s", "t">>,
     description |-> <<"a", "d", "d", " ", "t", "e", "s", "t", "s">>],
    \* chore: 'update tasks'
    [type |-> <<"c", "h", "o", "r", "e">>,
     description |-> <<"u", "p", "d", "a", "t", "e", " ", "t", "a", "s", "k", "s">>]
>>

\* defaults[commitType] || 'update codebase'
GetDefaultDescription(commitType) ==
    IF \E k \in 1..Len(DefaultDescriptions) : DefaultDescriptions[k].type = commitType
    THEN DefaultDescriptions[CHOOSE k \in 1..Len(DefaultDescriptions) :
                                 DefaultDescriptions[k].type = commitType].description
    ELSE <<"u", "p", "d", "a", "t", "e", " ", "c", "o", "d", "e", "b", "a", "s", "e">>

RECURSIVE FirstDescription(_, _, _)
FirstDescription(lowerPrompt, entries, commitType) ==
    IF entries = <<>> THEN GetDefaultDescription(commitType)
    ELSE IF Includes(lowerPrompt, Head(entries).keyword) THEN Head(entries).description
    ELSE FirstDescription(lowerPrompt, Tail(entries), commitType)

\* generateDescription(prompt, commitType)
GenerateDescription(prompt, commitType) ==
    FirstDescription(ToLowerCase(prompt), GetDescriptionMap(commitType), commitType)

\* `${commitType}${scopePart}: ${description}`
ComposeMessage(commitType, scope, description) ==
    commitType \o (IF scope # <<>> THEN <<"(">> \o scope \o <<")">> ELSE <<>>)
               \o <<":", " ">> \o description

\* generateIntelligentCommitMessage(prompt); none of its steps throws
GenerateIntelligentCommitMessage(prompt) ==
    LET commitType == DetermineCommitType(prompt)
        scope == DetermineScope(prompt)
        description == GenerateDescription(prompt, commitType)
    IN  ComposeMessage(commitType, scope, description)

\* the rules of generateRuleBasedCommitMessage, in their order
Rules == <<
    \* ['added', 'new']: 'feat: add new functionality'
    [keywords |-> <<<<"a", "d", "d", "e", "d">>, <<"n", "e", "w">>>>,
     message |-> <<"f", "e", "a", "t", ":", " ", "a", "d", "d", " ", "n", "e", "w", " ", "f", "u", "n", "c", "t", "i", "o", "n", "a", "l", "i", "t", "y">>],
    \* ['deleted', 'removed']: 'chore: remove unused files'
    [keywords |-> <<<<"d", "e", "l", "e", "t", "e", "d">>, <<"r", "e", "m", "o", "v", "e", "d">>>>,
     message |-> <<"c", "h", "o", "r", "e", ":", " ", "r", "e", "m", "o", "v", "e", " ", "u", "n", "u", "s", "e", "d", " ", "f", "i", "l", "e", "s">>],
    \* ['test', 'spec']: 'test: add or update tests'
    [keywords |-> <<<<"t", "e", "s", "t">>, <<"s", "p", "e", "c">>>>,
     message |-> <<"t", "e", "s", "t", ":", " ", "a", "d", "d", " ", "o", "r", " ", "u", "p", "d", "a", "t", "e", " ", "t", "e", "s", "t", "s">>],
    \* ['readme', 'documentation', '.md']: 'docs: update documentation'
    [keywords |-> <<<<"r", "e", "a", "d", "m", "e">>, <<"d", "o", "c", "u", "m", "e", "n", "t", "a", "t", "i", "o", "n">>, <<".", "m", "d">>>>,
     message |-> <<"d", "o", "c", "s", ":", " ", "u", "p", "d", "a", "t", "e", " ", "d", "o", "c", "u", "m", "e", "n", "t", "a", "t", "i", "o", "n">>],
    \* ['package.json', 'dependencies']: 'chore: update dependencies'
    [keywords |-> <<<<"p", "a", "c", "k", "a", "g", "e", ".", "j", "s", "o", "n">>, <<"d", "e", "p", "e", "n", "d", "e", "n", "c", "i", "e", "s">>>>,
     message |-> <<"c", "h", "o", "r", "e", ":", " ", "u", "p", "d", "a", "t", "e", " ", "d", "e", "p", "e", "n", "d", "e", "n", "c", "i", "e", "s">>],
    \* ['fix', 'bug', 'error']: 'fix: resolve issues'
    [keywords |-> <<<<"f", "i", "x">>, <<"b", "u", "g">>, <<"e", "r", "r", "o", "r">>>>,
     message |-> <<"f", "i", "x", ":", " ", "r", "e", "s", "o", "l", "v", "e", " ", "i", "s", "s", "u", "e", "s">>],
    \* ['refactor', 'restructure']: 'refactor: improve code structure'
    [keywords |-> <<<<"r", "e", "f", "a", "c", "t", "o", "r">>, <<"r", "e", "s", "t", "r", "u", "c", "t", "u", "r", "e">>>>,
     message |-> <<"r", "e", "f", "a", "c", "t", "o", "r", ":", " ", "i", "m", "p", "r", "o", "v", "e", " ", "c", "o", "d", "e", " ", "s", "t", "r", "u", "c", "t", "u", "r", "e">>],
    \* ['style', 'format']: 'style: format code'
    [keywords |-> <<<<"s", "t", "y", "l", "e">>, <<"f", "o", "r", "m", "a", "t">>>>,
     message |-> <<"s", "t", "y", "l", "e", ":", " ", "f", "o", "r", "m", "a", "t", " ", "c", "o", "d", "e">>]
>>

RECURSIVE FirstRule(_, _)
FirstRule(lowerPrompt, rules) ==
    IF rules = <<>> THEN <<"f", "e", "a", "t", ":", " ", "u", "p", "d", "a", "t", "e", " ", "c", "o", "d", "e", "b", "a", "s", "e">>
    ELSE IF SomeIncluded(lowerPrompt, Head(rules).keywords) THEN Head(rules).message
    ELSE FirstRule(lowerPrompt, Tail(rules))

\* generateRuleBasedCommitMessage(prompt)
GenerateRuleBasedCommitMessage(prompt) == FirstRule(ToLowerCase(prompt), Rules)

\* a string or undefined
Undefined == [defined |-> FALSE, text |-> <<>>]
Defined(text) == [defined |-> TRUE, text |-> text]
\* if (value): neither undefined nor the empty string
Truthy(value) == value.defined /\ value.text # <<>>

TitleCap == 72
TitleKeep == 69

\* cleaned.slice(1, -1) when the text starts and ends with the same quote
Unquoted(cleaned) ==
    IF \/ StartsWith(cleaned, <<"\"">>) /\ EndsWith(cleaned, <<"\"">>)
       \/ StartsWith(cleaned, <<"'">>) /\ EndsWith(cleaned, <<"'">>)
    THEN SubSeq(cleaned, 2, Len(cleaned) - 1)
    ELSE cleaned

\* cleaned.replace(/^(commit\s+message:\s*)/i, '')
WithoutPrefix(cleaned) ==
    LET commit == <<"c", "o", "m", "m", "i", "t">>
        message == <<"m", "e", "s", "s", "a", "g", "e", ":">>
        afterCommit == SubSeq(cleaned, Len(commit) + 1, Len(cleaned))
        atMessage == TrimStart(afterCommit)
    IN  IF /\ StartsWith(ToLowerCase(cleaned), commit)
           /\ Len(atMessage) < Len(afterCommit)
           /\ StartsWith(ToLowerCase(atMessage), message)
        THEN TrimStart(SubSeq(atMessage, Len(message) + 1, Len(atMessage)))
        ELSE cleaned

\* lines[0] of cleaned.split('\n') cut to TitleKeep characters and '...' when
\* it is longer than TitleCap, the other lines as they are
FirstLineCapped(cleaned) ==
    LET breaks == {n \in 1..Len(cleaned) : cleaned[n] = "\n"}
        end == IF breaks = {} THEN Len(cleaned)
               ELSE (CHOOSE n \in breaks : \A m \in breaks : n <= m) - 1
    IN  IF end > TitleCap
        THEN SubSeq(cleaned, 1, TitleKeep) \o <<".", ".", ".">>
                 \o SubSeq(cleaned, end + 1, Len(cleaned))
        ELSE cleaned

\* cleanupAIResponse(response)
CleanupAIResponse(response) ==
    Trim(FirstLineCapped(WithoutPrefix(Unquoted(Trim(response)))))

\* what executeCommand('github.copilot.interactiveEditor.generateCommitMessage')
\* resolves to: a string, or a value that is no string
NoString == [string |-> FALSE, text |-> <<>>]
String(text) == [string |-> TRUE, text |-> text]

\* tryGitHubCopilotChat once the command has returned or thrown
CopilotMessage(ok, result) ==
    IF ok /\ result.string /\ Trim(result.text) # <<>>
    THEN Defined(CleanupAIResponse(result.text))
    ELSE Undefined

\* requestAICommitMessage(prompt) returns, and generateCommitMessage with it
Requested(c, copilotMessage) ==
    LET aiMessage == IF Truthy(copilotMessage) THEN copilotMessage
                     ELSE Defined(GenerateIntelligentCommitMessage(c.prompt))
    IN  [c EXCEPT !.pc = "done", !.copilotMessage = copilotMessage,
            !.settled =
                IF c.fn = "requestAICommitMessage" \/ Truthy(aiMessage)
                THEN Fulfilled(aiMessage)
                ELSE Fulfilled(Defined(GenerateRuleBasedCommitMessage(c.prompt)))]

AtAssistant(pc) ==
    svcCall.fn \in {"requestAICommitMessage", "generateCommitMessage"} /\ svcCall.pc = pc

\* tryGitHubCopilotChat(prompt): the extension GitHub.copilot-chat is active
\* and the command is executed, or it is not and there is no message
TryGitHubCopilotChat(active) ==
    /\ AtAssistant("assistant")
    /\ svcCall' = IF active THEN [svcCall EXCEPT !.pc = "command", !.asked = TRUE]
                  ELSE Requested(svcCall, Undefined)
    /\ UNCHANGED <<repoVars, gitVars, sel, att, storeLog>>

\* the command returns a result or throws
CommandSettles(ok, result) ==
    /\ AtAssistant("command")
    /\ svcCall' = Requested([svcCall EXCEPT !.assistantFailed = ~ok],
                            CopilotMessage(ok, result))
    /\ UNCHANGED <<repoVars, gitVars, sel, att, storeLog>>

(***************************************************************************)
(* The keyword heuristic as a function of the prompt: prompts of up to     *)
(* MaxWords words, each word with or without keywords of the tables.       *)
(***************************************************************************)
MaxWords == 2

Words == {<<"u", "p", "d", "a", "t", "e">>,
          <<"r", "e", "a", "d", "m", "e">>,
          <<"b", "u", "g">>,
          <<"e", "r", "r", "o", "r", " ", "h", "a", "n", "d", "l", "i", "n", "g">>,
          <<"s", "p", "e", "c">>,
          <<"t", "e", "s", "t">>,
          <<"r", "e", "f", "a", "c", "t", "o", "r", "e", "d">>,
          <<"f", "o", "r", "m", "a", "t", "t", "e", "d">>,
          <<"r", "e", "m", "o", "v", "e", "d">>,
          <<"p", "a", "c", "k", "a", "g", "e", ".", "j", "s", "o", "n">>,
          <<"c", "o", "n", "f", "i", "g", ".", "y", "m", "l">>,
          <<"u", "i">>,
          <<"a", "p", "i">>,
          <<"a", "d", "d">>,
          <<"i", "m", "p", "l", "e", "m", "e", "n", "t">>,
          <<"x">>}

RECURSIVE JoinWords(_)
JoinWords(ws) ==
    IF ws = <<>> THEN <<>>
    ELSE IF Len(ws) = 1 THEN ws[1]
    ELSE ws[1] \o <<" ">> \o JoinWords(Tail(ws))

PromptSamples == {JoinWords(ws) : ws \in UNION {[1..n -> Words] : n \in 0..MaxWords}}

\* what the assistant's command returns: a blank, a pair of quotes, a
\* prefixed and quoted message, a title longer than TitleCap
ResultSamples ==
    {NoString, String(<<" ">>), String(<<"\"", "\"">>),
     String(<<"\"", "C", "o", "m", "m", "i", "t", " ", " ", "M", "e", "s", "s", "a", "g", "e", ":", " ", "f", "e", "a", "t", ":", " ", "x", "\"">>),
     String([n \in 1..(TitleCap + 1) |-> "x"])}

RequestAICommitMessage(prompt) ==
    [fn |-> "requestAICommitMessage", prompt |-> prompt, pc |-> "assistant",
     asked |-> FALSE, assistantFailed |-> FALSE, copilotMessage |-> Undefined,
     settled |-> Fulfilled(Undefined)]

InitHeuristic ==
    /\ Activated
    /\ CleanTrees
    /\ sel = [r \in Roots |-> <<>>]
    /\ storeLog = <<>>
    /\ svcCall \in {RequestAICommitMessage(p) : p \in PromptSamples}

NextHeuristic ==
    \/ \E active \in BOOLEAN : TryGitHubCopilotChat(active)
    \/ AtAssistant("command") /\ CommandSettles(FALSE, NoString)
    \/ AtAssistant("command") /\ \E r \in ResultSamples : CommandSettles(TRUE, r)

SpecHeuristic == InitHeuristic /\ [][NextHeuristic]_vars

Least(S) == CHOOSE n \in S : \A m \in S : n <= m

\* the call has returned and the assistant gave no message: it is absent,
\* its command threw, or its answer was no text, blank, or empty once cleaned
HeuristicAnswered == AtAssistant("done") /\ ~Truthy(svcCall.copilotMessage)

(***************************************************************************)
(* C22.  When the assistant is unavailable or fails, the message is        *)
(* type(scope): description.  The type is that of the first entry of the   *)
(* type table, in table order, one of whose keywords the lower-cased       *)
(* prompt contains, 'feat' when there is none; the scope is found the same *)
(* way in the scope table, and an empty scope (no entry matches) gives the *)
(* form type: description; the description is that of the first matching   *)
(* entry of the type's description table, the default of the type when     *)
(* none matches or the type has no table.                                  *)
(***************************************************************************)
C22_HeuristicFirstMatchWithDefaults ==
    HeuristicAnswered =>
        LET lower == ToLowerCase(svcCall.prompt)
            Hit(keywords) == \E k \in 1..Len(keywords) : Includes(lower, keywords[k])
            types == {k \in 1..Len(TypeMap) : Hit(TypeMap[k].keywords)}
            scopes == {k \in 1..Len(ScopeMap) : Hit(ScopeMap[k].keywords)}
            type == IF types = {} THEN <<"f", "e", "a", "t">> ELSE TypeMap[Least(types)].type
            scope == IF scopes = {} THEN <<>> ELSE ScopeMap[Least(scopes)].scope
            table == GetDescriptionMap(type)
            descriptions == {k \in 1..Len(table) : Includes(lower, table[k].keyword)}
            default == {k \in 1..Len(DefaultDescriptions) : DefaultDescriptions[k].type = type}
            description == IF descriptions # {} THEN table[Least(descriptions)].description
                           ELSE DefaultDescriptions[Least(default)].description
            message == svcCall.settled.value
        IN  /\ ~svcCall.settled.threw
            /\ message.defined
            /\ default # {}
            /\ message.text = type \o (IF scope = <<>> THEN <<>>
                                       ELSE <<"(">> \o scope \o <<")">>)
                                   \o <<":", " ">> \o description
            /\ scope = <<>> => ~Includes(message.text, <<"(">>)

\* the command of the assistant threw; the prompt 'test bug' has keywords of
\* the entries fix and test of the type table, and of test of the scope table
C22_Witness ==
    /\ HeuristicAnswered
    /\ svcCall.assistantFailed
    /\ svcCall.prompt = <<"t", "e", "s", "t", " ", "b", "u", "g">>
    /\ svcCall.settled.value.text = <<"f", "i", "x", "(", "t", "e", "s", "t", ")", ":", " ", "r", "e", "s", "o", "l", "v", "e", " ", "c", "r", "i", "t", "i", "c", "a", "l", " ", "b", "u", "g">>

(***************************************************************************)
(* generateCommitMessage(repository, selectedFiles): the analysis of the   *)
(* selected files one after the other, the prompt, the assistant.          *)
(***************************************************************************)
\* fileUri.fsPath.split('/').pop(): the characters of the last segment
FileNameChars ==
    <<<<"a", ".", "t", "x", "t">>,
      <<"b", ".", "t", "x", "t">>,
      <<"c", ".", "t", "x", "t">>,
      <<"d", ".", "t", "x", "t">>>>

FileNameOf(f) ==
    FileNameChars[CHOOSE n \in 1..Len(FileNames) : FileNames[n] = f[Len(f)]]

\* getChangeTypeLabel(status)
GetChangeTypeLabel(status) ==
    CASE status = 0 -> "U"
      [] status = 1 -> "A"
      [] status = 2 -> "M"
      [] status = 3 -> "D"
      [] status = 4 -> "R"
      [] status = 5 -> "C"
      [] status = 6 -> "U"
      [] OTHER -> "M"

\* the status the host gives a staged or working tree change
StatusSamples == {0, 1, 2}

NoChangeInfo == ""

\* getFileChangeInfo(repository, fileUri).changeType; status is that of the
\* change found
GetFileChangeInfo(root, f, status) ==
    IF Contains(untrackedChanges[root], f) THEN "A"
    ELSE IF Contains(indexChanges[root], f) THEN GetChangeTypeLabel(status)
    ELSE IF Contains(workingTreeChanges[root], f) THEN GetChangeTypeLabel(status)
    ELSE NoChangeInfo

\* createChangeSummary(fileName, changeType)
CreateChangeSummary(fileName, changeType) ==
    CASE changeType = "A" -> <<"A", "d", "d", "e", "d", " ", "n", "e", "w", " ", "f", "i", "l", "e", ":", " ">> \o fileName
      [] changeType = "D" -> <<"D", "e", "l", "e", "t", "e", "d", " ", "f", "i", "l", "e", ":", " ">> \o fileName
      [] changeType = "R" -> <<"R", "e", "n", "a", "m", "e", "d", " ", "f", "i", "l", "e", ":", " ">> \o fileName
      [] changeType = "M" -> <<"M", "o", "d", "i", "f", "i", "e", "d", " ", "f", "i", "l", "e", ":", " ">> \o fileName
      [] OTHER -> <<"C", "h", "a", "n", "g", "e", "d", " ", "f", "i", "l", "e", ":", " ">> \o fileName

AnalysisCap == 1500

\* String.prototype.substring(0, end)
Substring(text, end) == SubSeq(text, 1, IF Len(text) < end THEN Len(text) ELSE end)

\* the file whose diff getFileDiff asks for: the document of fileUri for an
\* added file; for the others the standalone client of the repository, which
\* runs in its root, is given vscode.workspace.asRelativePath(fileUri)
DiffedFile(root, f, changeType) ==
    IF changeType = "A" THEN f ELSE ResolveIn(root, AsRelativePath(f))

\* the FileChangeAnalysis of analyzeFileChange; file and diffOf are not
\* fields of it: they record the file analyzed and the file the diff is of
Analysis(root, f, changeType, diff) ==
    [file |-> f, diffOf |-> DiffedFile(root, f, changeType),
     fileName |-> FileNameOf(f), changeType |-> changeType,
     diff |-> Substring(diff, AnalysisCap),
     summary |-> CreateChangeSummary(FileNameOf(f), changeType)]

\* Array.prototype.map(item => ...).join(separator)
RECURSIVE Join(_, _)
Join(texts, separator) ==
    IF texts = <<>> THEN <<>>
    ELSE IF Len(texts) = 1 THEN texts[1]
    ELSE texts[1] \o separator \o Join(Tail(texts), separator)

\* the text of the prompt before the file summaries:
\*   Generate a concise, professional Git commit message following conventional commit format.
\*
\*   Files changed:
\*
PromptIntroduction ==
    <<"G", "e", "n", "e", "r", "a", "t", "e", " ", "a", " ", "c", "o", "n",
      "c", "i", "s", "e", ",", " ", "p", "r", "o", "f", "e", "s", "s", "i",
      "o", "n", "a", "l", " ", "G", "i", "t", " ", "c", "o", "m", "m", "i",
      "t", " ", "m", "e", "s", "s", "a", "g", "e", " ", "f", "o", "l", "l",
      "o", "w", "i", "n", "g", " ", "c", "o", "n", "v", "e", "n", "t", "i",
      "o", "n", "a", "l", " ", "c", "o", "m", "m", "i", "t", " ", "f", "o",
      "r", "m", "a", "t", ".", "\n", "\n", "F", "i", "l", "e", "s", " ",
      "c", "h", "a", "n", "g", "e", "d", ":", "\n">>

\* between the summaries and the detailed changes:
\*
\*
\*   Detailed changes:
\*
PromptDetails ==
    <<"\n", "\n", "D", "e", "t", "a", "i", "l", "e", "d", " ", "c", "h",
      "a", "n", "g", "e", "s", ":", "\n">>

PromptInstructionsNone == <<>>

\* after the detailed changes:
\*
\*
\*   Please generate a commit message that:
\*   1. Uses conventional commit format (feat:, fix:, docs:, style:, refactor:, test:, chore:)
\*   2. Is concise but descriptive (50-72 characters for the title)
\*   3. Captures the main purpose of these changes
\*   4. Uses present tense (e.g., "add feature" not "added feature")
\*
\*   Return only the commit message, no additional text.
PromptInstructions ==
    <<"\n", "\n", "P", "l", "e", "a", "s", "e", " ", "g", "e", "n", "e",
      "r", "a", "t", "e", " ", "a", " ", "c", "o", "m", "m", "i", "t", " ",
      "m", "e", "s", "s", "a", "g", "e", " ", "t", "h", "a", "t", ":",
      "\n", "1", ".", " ", "U", "s", "e", "s", " ", "c", "o", "n", "v",
      "e", "n", "t", "i", "o", "n", "a", "l", " ", "c", "o", "m", "m", "i",
      "t", " ", "f", "o", "r", "m", "a", "t", " ", "(", "f", "e", "a", "t",
      ":", ",", " ", "f", "i", "x", ":", ",", " ", "d", "o", "c", "s", ":",
      ",", " ", "s", "t", "y", "l", "e", ":", ",", " ", "r", "e", "f", "a",
      "c", "t", "o", "r", ":", ",", " ", "t", "e", "s", "t", ":", ",", " ",
      "c", "h", "o", "r", "e", ":", ")", "\n", "2", ".", " ", "I", "s",
      " ", "c", "o", "n", "c", "i", "s", "e", " ", "b", "u", "t", " ", "d",
      "e", "s", "c", "r", "i", "p", "t", "i", "v", "e", " ", "(", "5", "0",
      "-", "7", "2", " ", "c", "h", "a", "r", "a", "c", "t", "e", "r", "s",
      " ", "f", "o", "r", " ", "t", "h", "e", " ", "t", "i", "t", "l", "e",
      ")", "\n", "3", ".", " ", "C", "a", "p", "t", "u", "r", "e", "s",
      " ", "t", "h", "e", " ", "m", "a", "i", "n", " ", "p", "u", "r", "p",
      "o", "s", "e", " ", "o", "f", " ", "t", "h", "e", "s", "e", " ", "c",
      "h", "a", "n", "g", "e", "s", "\n", "4", ".", " ", "U", "s", "e",
      "s", " ", "p", "r", "e", "s", "e", "n", "t", " ", "t", "e", "n", "s",
      "e", " ", "(", "e", ".", "g", ".", ",", " ", "\"", "a", "d", "d",
      " ", "f", "e", "a", "t", "u", "r", "e", "\"", " ", "n", "o", "t",
      " ", "\"", "a", "d", "d", "e", "d", " ", "f", "e", "a", "t", "u",
      "r", "e", "\"", ")", "\n", "\n", "R", "e", "t", "u", "r", "n", " ",
      "o", "n", "l", "y", " ", "t", "h", "e", " ", "c", "o", "m", "m", "i",
      "t", " ", "m", "e", "s", "s", "a", "g", "e", ",", " ", "n", "o", " ",
      "a", "d", "d", "i", "t", "i", "o", "n", "a", "l", " ", "t", "e", "x",
      "t", ".">>

\* `- ${item.summary}`
SummaryLine(item) == <<"-", " ">> \o item.summary

\* `File: ${item.fileName}\nChange Type: ${item.changeType}\nDiff:\n${item.diff}`
DetailedChange(item) ==
    <<"F", "i", "l", "e", ":", " ">> \o item.fileName
        \o <<"\n", "C", "h", "a", "n", "g", "e", " ", "T", "y", "p", "e", ":", " ">> \o <<item.changeType>>
        \o <<"\n", "D", "i", "f", "f", ":", "\n">> \o item.diff

\* createDetailedCommitPrompt(diffsAndContext)
CreateDetailedCommitPrompt(diffsAndContext) ==
    LET filesSummary ==
            Join([n \in 1..Len(diffsAndContext) |-> SummaryLine(diffsAndContext[n])],
                 <<"\n">>)
        detailedChanges ==
            Join([n \in 1..Len(diffsAndContext) |-> DetailedChange(diffsAndContext[n])],
                 <<"\n", "\n", "-", "-", "-", "\n", "\n">>)
    IN  PromptIntroduction \o filesSummary \o PromptDetails \o detailedChanges
                           \o PromptInstructions

\* 'No files selected for commit message generation'
NoFilesSelected ==
    <<"N", "o", " ", "f", "i", "l", "e", "s", " ", "s", "e", "l", "e", "c",
      "t", "e", "d", " ", "f", "o", "r", " ", "c", "o", "m", "m", "i", "t",
      " ", "m", "e", "s", "s", "a", "g", "e", " ", "g", "e", "n", "e", "r",
      "a", "t", "i", "o", "n">>
\* 'No analyzable changes found in selected files'
NoAnalyzableChanges ==
    <<"N", "o", " ", "a", "n", "a", "l", "y", "z", "a", "b", "l", "e", " ",
      "c", "h", "a", "n", "g", "e", "s", " ", "f", "o", "u", "n", "d", " ",
      "i", "n", " ", "s", "e", "l", "e", "c", "t", "e", "d", " ", "f", "i",
      "l", "e", "s">>
\* 'Failed to generate commit message: '
FailedToGenerate ==
    <<"F", "a", "i", "l", "e", "d", " ", "t", "o", " ", "g", "e", "n", "e",
      "r", "a", "t", "e", " ", "c", "o", "m", "m", "i", "t", " ", "m", "e",
      "s", "s", "a", "g", "e", ":", " ">>

FailedRaises(c, error) ==
    [c EXCEPT !.pc = "done", !.settled = Rejected(error)]

\* catch (error): showErrorMessage(`Failed to generate commit message:
\* ${errorMessage}`); return undefined
Failed(c, error) ==
    [c EXCEPT !.pc = "done", !.shown = FailedToGenerate \o error,
        !.settled = Fulfilled(Undefined)]

\* the loop of getSelectedFilesDiffs goes on with the next file, or the
\* analysis is complete: no analysis fails the call, otherwise the prompt is
\* assembled and the assistant is asked
Analyzed(c) ==
    IF c.i <= Len(c.selectedFiles) THEN [c EXCEPT !.pc = "analyze"]
    ELSE IF Len(c.analyses) = 0 THEN Failed(c, NoAnalyzableChanges)
    ELSE [c EXCEPT !.pc = "assistant",
             !.prompt = CreateDetailedCommitPrompt(c.analyses)]

\* GitService.generateCommitMessage(repository): the generator is called with
\* the stored selection of the repository
GenerateCommitMessage(root) ==
    /\ svcCall.fn = "none"
    /\ LET selectedFiles == GetSelectedFiles(root)
           c == [fn |-> "generateCommitMessage", root |-> root,
                 selectedFiles |-> selectedFiles, i |-> 1, analyses |-> <<>>,
                 changeType |-> NoChangeInfo, prompt |-> <<>>, pc |-> "analyze",
                 asked |-> FALSE, assistantFailed |-> FALSE,
                 copilotMessage |-> Undefined, shown |-> <<>>,
                 settled |-> Fulfilled(Undefined)]
       IN  svcCall' = IF Len(selectedFiles) = 0 THEN Failed(c, NoFilesSelected) ELSE c
    /\ UNCHANGED <<repoVars, gitVars, sel, att, storeLog>>

Generating(pc) == svcCall.fn = "generateCommitMessage" /\ svcCall.pc = pc

\* analyzeFileChange(repository, fileUri) for the next selected file: a file
\* without change information is passed over, the diff of the others is asked
AnalyzeFileChange(status) ==
    /\ Generating("analyze")
    /\ LET f == svcCall.selectedFiles[svcCall.i]
           changeType == GetFileChangeInfo(svcCall.root, f, status)
       IN  svcCall' =
             IF changeType = NoChangeInfo
             THEN Analyzed([svcCall EXCEPT !.i = svcCall.i + 1])
             ELSE [svcCall EXCEPT !.pc = "diff", !.changeType = changeType]
    /\ UNCHANGED <<repoVars, gitVars, sel, att, storeLog>>

\* await this._diffService.getFileDiff(...) returns a string: the analysis of
\* the file is pushed
FileDiffSettles(diff) ==
    /\ Generating("diff")
    /\ LET f == svcCall.selectedFiles[svcCall.i]
           analysis == Analysis(svcCall.root, f, svcCall.changeType, diff)
       IN  svcCall' = Analyzed([svcCall EXCEPT !.i = svcCall.i + 1,
                                   !.analyses = Append(svcCall.analyses, analysis)])
    /\ UNCHANGED <<repoVars, gitVars, sel, att, storeLog>>

\* the strings the diff reader returns
DiffSamples ==
    {<<"u", "p", "d", "a", "t", "e", " ", "r", "e", "a", "d", "m", "e">>,
     <<"p", "a", "c", "k", "a", "g", "e", ".", "j", "s", "o", "n", " ", "b", "u", "g">>,
     <<"e", "r", "r", "o", "r">>}

\* the changes of a working tree: every file in at most one category
ChangeStates(root) ==
    {g \in GitStates(root) : Range(g.index) \cap Range(g.workingTree) = {}}

\* one repository has changes and a selection of its files, the other has a
\* clean working tree and no selection
InitGenerate ==
    /\ Activated
    /\ \E root \in Roots : \E g \in ChangeStates(root) :
          /\ indexChanges = [r \in Roots |-> IF r = root THEN g.index ELSE <<>>]
          /\ workingTreeChanges =
                [r \in Roots |-> IF r = root THEN g.workingTree ELSE <<>>]
          /\ untrackedChanges = [r \in Roots |-> IF r = root THEN g.untracked ELSE <<>>]
          /\ sel \in {s \in Stores : \A r \in Roots \ {root} : s[r] = <<>>}
    /\ storeLog = <<>>
    /\ svcCall = NoCall

NextGenerate ==
    \/ \E root \in Roots : GenerateCommitMessage(root)
    \/ Generating("analyze") /\ \E status \in StatusSamples : AnalyzeFileChange(status)
    \/ Generating("diff") /\ \E d \in DiffSamples : FileDiffSettles(d)
    \/ \E active \in BOOLEAN : TryGitHubCopilotChat(active)
    \/ AtAssistant("command") /\ CommandSettles(FALSE, NoString)
    \/ AtAssistant("command") /\ \E r \in ResultSamples : CommandSettles(TRUE, r)

SpecGenerate == InitGenerate /\ [][NextGenerate]_vars

\* the call of generateCommitMessage has returned
Generated == Generating("done")

\* the files of the repository with a change in some category
ChangedIn(root) ==
    Range(indexChanges[root]) \cup Range(workingTreeChanges[root])
        \cup Range(untrackedChanges[root])

(***************************************************************************)
(* C21.  generate(repo, selection) fails exactly when the selection is     *)
(* empty or no selected file has a change to analyze: it then returns no   *)
(* message, the error is shown to the user and nothing is raised to the    *)
(* caller.  In every other case it returns a non-empty message and shows   *)
(* no error.                                                               *)
(***************************************************************************)
C21_GenerateFailsExactlyWithoutAnalyzableFile ==
    Generated =>
        LET nothing == \/ svcCall.selectedFiles = <<>>
                       \/ Range(svcCall.selectedFiles) \cap ChangedIn(svcCall.root) = {}
            message == svcCall.settled.value
        IN  /\ ~svcCall.settled.threw
            /\ IF nothing
               THEN /\ ~message.defined
                    /\ StartsWith(svcCall.shown, FailedToGenerate)
                    /\ Len(svcCall.shown) > Len(FailedToGenerate)
               ELSE /\ message.defined
                    /\ message.text # <<>>
                    /\ svcCall.shown = <<>>

\* files are selected and none of them has a change: the call fails with
\* the error shown
C21_Witness ==
    /\ Generated
    /\ svcCall.selectedFiles # <<>>
    /\ ~svcCall.settled.value.defined
    /\ svcCall.shown = FailedToGenerate \o NoAnalyzableChanges

\* a prompt has been assembled
Prompted == svcCall.fn = "generateCommitMessage" /\ svcCall.prompt # <<>>

(***************************************************************************)
(* C23.  As claimed: when the text of the prompt contains 'readme' and     *)
(* 'update', the heuristic yields the type docs, the scope docs and the    *)
(* description 'update documentation': docs(docs): update documentation.   *)
(***************************************************************************)
C23_ReadmeUpdateGivesDocs ==
    (/\ Prompted
     /\ HeuristicAnswered
     /\ Includes(ToLowerCase(svcCall.prompt), <<"r", "e", "a", "d", "m", "e">>)
     /\ Includes(ToLowerCase(svcCall.prompt), <<"u", "p", "d", "a", "t", "e">>))
        => svcCall.settled.value.text =
            <<"d", "o", "c", "s", "(", "d", "o", "c", "s", ")", ":", " ",
              "u", "p", "d", "a", "t", "e", " ", "d", "o", "c", "u", "m",
              "e", "n", "t", "a", "t", "i", "o", "n">>

(***************************************************************************)
(* C25.  As claimed: every file summary and every diff of the prompt       *)
(* belongs to a file of the selection, and a selected file without a       *)
(* change in any category contributes nothing to the prompt.               *)
(***************************************************************************)
C25_PromptOnlySelectedFiles ==
    Prompted =>
        LET analyses == svcCall.analyses IN
        /\ svcCall.prompt = CreateDetailedCommitPrompt(analyses)
        /\ \A n \in 1..Len(analyses) :
              /\ analyses[n].file \in Range(sel[svcCall.root])
              /\ analyses[n].diffOf = analyses[n].file
              /\ analyses[n].file \in ChangedIn(svcCall.root)

Handler(name, failed, shown, escaped) ==
    [fn |-> "handler", handler |-> name, failed |-> failed, shown |-> shown,
     escaped |-> escaped]

\* await workspaceState.update(key, after): the value is stored; when the
\* update is rejected the stored value is the old or the new one
Updated(root, after, ok) ==
    IF ok THEN sel' = [sel EXCEPT ![root] = after]
    ELSE sel' \in {sel, [sel EXCEPT ![root] = after]}

\* smart-git.toggleFile: async (item) => { if (item?.resourceUri &&
\* item?.repository) await gitService.toggleFileSelection(...) }
ToggleFileCommand(item, root, f, ok) ==
    /\ svcCall.fn = "none"
    /\ IF item
       THEN /\ Updated(root, ToggledSelection(sel[root], f), ok)
            /\ svcCall' = Handler("toggleFile", ~ok, FALSE,
                                  IF ok THEN "none" ELSE "rejected")
       ELSE /\ sel' = sel
            /\ svcCall' = Handler("toggleFile", FALSE, FALSE, "none")
    /\ UNCHANGED <<repoVars, gitVars, att, storeLog>>

\* onDidChangeCheckboxState: setFileSelection is called and not awaited, the
\* tree is refreshed and the handler returns
CheckboxStateChanged(root, f, isSelected, ok) ==
    /\ svcCall.fn = "none"
    /\ Updated(root, SetSelection(sel[root], f, isSelected), ok)
    /\ svcCall' = Handler("checkbox", ~ok, FALSE,
                          IF ok THEN "none" ELSE "unhandledRejection")
    /\ UNCHANGED <<repoVars, gitVars, att, storeLog>>

\* how GitService.commit ends: the commit is made and the selection cleared,
\* the clear is rejected by the storage, or the commit fails before
CommitResults == {"committed", "clearRejected", "failed"}

\* handleCommit, handleCommitAndPush of the commit panel for the active
\* repository: commit shows its failure and throws again, the handler
\* catches and shows it; a failed push is shown by commitAndPush itself
HandleCommit(push, result, pushed) ==
    /\ svcCall.fn = "none"
    /\ repositories # <<>>
    /\ LET activeRepo == repositories[1] IN
       CASE result = "committed" -> sel' = ClearSelection(sel, activeRepo)
         [] result = "clearRejected" -> Updated(activeRepo, <<>>, FALSE)
         [] result = "failed" -> sel' = sel
    /\ svcCall' = Handler(IF push THEN "commitAndPush" ELSE "commit",
                          result # "committed" \/ (push /\ ~pushed),
                          result # "committed" \/ (push /\ ~pushed), "none")
    /\ UNCHANGED <<repoVars, gitVars, att, storeLog>>

\* smart-git.generateCommitMessage and handleGenerateCommitMessage: the
\* generator returns a message, or has shown its error and returns none
HandleGenerateCommitMessage(panel, generated) ==
    /\ svcCall.fn = "none"
    /\ repositories # <<>>
    /\ svcCall' = Handler(IF panel THEN "panelGenerate" ELSE "generateCommitMessage",
                          ~generated, ~generated, "none")
    /\ UNCHANGED <<repoVars, gitVars, sel, att, storeLog>>

\* smart-git.debugCommitSetup: the validation of the active repository
\* returns and its result is shown
DebugCommitSetup ==
    /\ svcCall.fn = "none"
    /\ repositories # <<>>
    /\ LET activeRepo == repositories[1]
           validation == ValidateCommitSetup(
                             [defined |-> TRUE, root |-> activeRepo, rootUri |-> TRUE,
                              add |-> TRUE, commit |-> TRUE, state |-> TRUE],
                             GetSelectedFiles(activeRepo), GetChangedFiles(activeRepo))
       IN  svcCall' = Handler("debugCommitSetup", ~validation.isValid,
                              ~validation.isValid, "none")
    /\ UNCHANGED <<repoVars, gitVars, sel, att, storeLog>>

InitHandlers ==
    /\ Activated
    /\ \E g \in ChangeStates(RootMain) :
          /\ indexChanges = [r \in Roots |-> IF r = RootMain THEN g.index ELSE <<>>]
          /\ workingTreeChanges =
                [r \in Roots |-> IF r = RootMain THEN g.workingTree ELSE <<>>]
          /\ untrackedChanges =
                [r \in Roots |-> IF r = RootMain THEN g.untracked ELSE <<>>]
    /\ sel \in Stores
    /\ storeLog = <<>>
    /\ svcCall = NoCall

NextHandlers ==
    \/ \E item, ok \in BOOLEAN : \E root \in Roots : \E f \in FilesOf(root) :
          ToggleFileCommand(item, root, f, ok)
    \/ \E isSelected, ok \in BOOLEAN : \E root \in Roots : \E f \in FilesOf(root) :
          CheckboxStateChanged(root, f, isSelected, ok)
    \/ \E push, pushed \in BOOLEAN : \E result \in CommitResults :
          HandleCommit(push, result, pushed)
    \/ \E panel, generated \in BOOLEAN : HandleGenerateCommitMessage(panel, generated)
    \/ DebugCommitSetup

SpecHandlers == InitHandlers /\ [][NextHandlers]_vars

Handled == svcCall.fn = "handler"

(***************************************************************************)
(* C24.  As claimed: every failure of a UI-triggered operation (toggle or  *)
(* checkbox change of the selection, commit, commit and push, generate     *)
(* message, validate setup), a rejected write of the selection included,   *)
(* ends in a message shown to the user, and no handler lets a failure out  *)
(* as a rejected or an unawaited rejected promise.                         *)
(***************************************************************************)
C24_FailuresCaughtAtBoundary ==
    Handled => /\ svcCall.escaped = "none"
               /\ svcCall.failed => svcCall.shown

(***************************************************************************)
(* The selection and commit handlers of the activated extension, for the   *)
(* repository at the workspace folder with changes of every category and   *)
(* an empty selection store.                                               *)
(***************************************************************************)
InitCommit ==
    /\ Activated
    /\ \E g \in ChangeStates(RootMain) :
          /\ indexChanges = [r \in Roots |-> IF r = RootMain THEN g.index ELSE <<>>]
          /\ workingTreeChanges =
                [r \in Roots |-> IF r = RootMain THEN g.workingTree ELSE <<>>]
          /\ untrackedChanges =
                [r \in Roots |-> IF r = RootMain THEN g.untracked ELSE <<>>]
    /\ sel = [r \in Roots |-> <<>>]
    /\ storeLog = <<>>
    /\ svcCall = NoCall

\* the steps of attempt k: a client call or the store write returns or fails
AttemptStep(k) ==
    \/ \E ok \in BOOLEAN : PrimaryAdd(k, ok)
    \/ \E ok \in BOOLEAN : SecondaryAdd(k, ok)
    \/ \E ok \in BOOLEAN : PrimaryCommit(k, ok)
    \/ \E ok \in BOOLEAN : SecondaryCommit(k, ok)
    \/ SelectionCleared(k)
    \/ \E ok \in BOOLEAN : Push(k, ok)

NextCommit ==
    \/ \E r \in Roots : \E f \in FilesOf(r) : ToggleFile(r, f)
    \/ \E r \in Roots : \E f \in FilesOf(r) : \E b \in BOOLEAN : SetFile(r, f, b)
    \/ \E k \in DOMAIN att : \E m \in Messages : \E amend \in BOOLEAN :
          \E push \in BOOLEAN : StartCommit(k, m, amend, push)
    \/ \E k \in DOMAIN att : AttemptStep(k)
    \/ \E k \in DOMAIN att : Return(k)

SpecCommit == InitCommit /\ [][NextCommit]_vars

\* every client call, and the write of the store, returns or fails: the
\* promise an attempt awaits is settled in the end
SpecCommitFair == SpecCommit /\ \A k \in Attempts : WF_vars(AttemptStep(k))

\* the attempt passed the check of the message: it entered the try block
Started(a) == a.pc # "idle" /\ a.outcome # "REJECTED"

\* a commit call was issued on one of the clients
CommitIssued(a) == a.priCommit # <<>> \/ a.secCommit # <<>>

C29_SelectionWithoutDuplicates ==
    \A r \in Roots : \A i, j \in 1..Len(sel[r]) : sel[r][i] = sel[r][j] => i = j

\* an attempt has committed and cleared the store, and every file of the
\* repository has been selected again
C29_Witness ==
    /\ Len(sel[RootMain]) = NumFiles
    /\ Cardinality(Range(sel[RootMain])) = NumFiles
    /\ \E k \in Attempts : att[k].pc = "done" /\ att[k].outcome = "COMMITTED"

(***************************************************************************)
(* Commit attempts that overlap: nothing in commit keeps a handler from    *)
(* starting an attempt, or from changing the selection, while another      *)
(* attempt on the repository waits for a client.                           *)
(***************************************************************************)
MaxInFlight == 2

InFlight == 1..MaxInFlight

\* every file of the repository at the workspace folder is modified, nothing
\* is selected
InitRace ==
    /\ gitRepos = <<RootMain, RootSub>>
    /\ repositories = gitRepos
    /\ simpleGitInstances = Roots
    /\ listeners = [r \in Roots |-> 1]
    /\ att = [k \in InFlight |-> IdleAttempt]
    /\ indexChanges = [r \in Roots |-> <<>>]
    /\ \E w \in SeqsNoDup(FilesOf(RootMain)) :
          /\ Range(w) = FilesOf(RootMain)
          /\ w \in {g.workingTree : g \in GitStates(RootMain)}
          /\ workingTreeChanges = [r \in Roots |-> IF r = RootMain THEN w ELSE <<>>]
    /\ untrackedChanges = [r \in Roots |-> <<>>]
    /\ sel = [r \in Roots |-> <<>>]
    /\ storeLog = <<>>
    /\ svcCall = NoCall

\* the handlers toggle files of the repository and start attempts that do
\* not amend, one after the other or before the last one has returned
NextRace ==
    \/ \E f \in FilesOf(RootMain) : ToggleFile(RootMain, f)
    \/ \E k \in InFlight : StartCommit(k, <<"f">>, FALSE, FALSE)
    \/ \E k \in InFlight : \E ok \in BOOLEAN : PrimaryAdd(k, ok)
    \/ \E k \in InFlight : \E ok \in BOOLEAN : SecondaryAdd(k, ok)
    \/ \E k \in InFlight : \E ok \in BOOLEAN : PrimaryCommit(k, ok)
    \/ \E k \in InFlight : \E ok \in BOOLEAN : SecondaryCommit(k, ok)
    \/ \E k \in InFlight : SelectionCleared(k)

SpecRace == InitRace /\ [][NextRace]_vars

\* the files an attempt has asked a client to stage
AskedToStage(a) ==
    Range(PrimaryAddCalls(a))
        \cup UNION {{ResolveIn(a.repo, a.secAdd[n][m]) : m \in 1..Len(a.secAdd[n])} :
                       n \in 1..Len(a.secAdd)}

\* the attempt is suspended in a call of a client
Suspended(a) == a.pc \in {"stage", "stageFallback", "commit", "commitFallback"}

MaxListeners == 3

\* updateRepositories can run without exceeding the bound of the model
WithinBound(g) == \A r \in Range(g) : listeners[r] < MaxListeners

\* new GitService(gitApi, context): none, some or all repositories are open
InitRepos ==
    /\ gitRepos \in SeqsNoDup(Roots)
    /\ repositories = <<>>
    /\ simpleGitInstances = {}
    /\ listeners = [r \in Roots |-> 0]
    /\ sel = [r \in Roots |-> <<>>]
    /\ CleanTrees
    /\ att = [k \in Attempts |-> IdleAttempt]
    /\ storeLog = <<>>
    /\ svcCall = NoCall

\* smart-git.refresh: gitService.updateRepositories()
RefreshCommand ==
    /\ WithinBound(gitRepos)
    /\ UpdateRepositories(gitRepos)
    /\ UNCHANGED <<gitRepos, sel, gitVars, att, callVars>>

\* the host opens a repository: onDidOpenRepository(() => updateRepositories())
RepositoryOpened(root) ==
    /\ ~Contains(gitRepos, root)
    /\ WithinBound(gitRepos)
    /\ gitRepos' = Append(gitRepos, root)
    /\ UpdateRepositories(gitRepos')
    /\ UNCHANGED <<sel, gitVars, att, callVars>>

\* the host closes a repository, whose state and listeners go with it:
\* onDidCloseRepository(() => updateRepositories())
RepositoryClosed(root) ==
    /\ Contains(gitRepos, root)
    /\ WithinBound(gitRepos)
    /\ gitRepos' = Remove(gitRepos, root)
    /\ repositories' = gitRepos'
    /\ simpleGitInstances' = simpleGitInstances \cup Range(gitRepos')
    /\ listeners' = [r \in Roots |->
                        IF r = root THEN 0
                        ELSE IF r \in Range(gitRepos') THEN listeners[r] + 1
                        ELSE listeners[r]]
    /\ UNCHANGED <<sel, gitVars, att, callVars>>

\* the state of an open repository changes once: each listener registered by
\* repo.state.onDidChange fires onDidGitStateChange
StateChanged(root) ==
    /\ Contains(gitRepos, root)
    /\ svcCall' = [fn |-> "stateChange", root |-> root,
                   notifications |-> listeners[root]]
    /\ UNCHANGED <<repoVars, sel, gitVars, att, storeLog>>

NextRepos ==
    \/ Activate
    \/ RefreshCommand
    \/ \E root \in Roots : RepositoryOpened(root)
    \/ \E root \in Roots : RepositoryClosed(root)
    \/ \E root \in Roots : StateChanged(root)

SpecRepos == InitRepos /\ [][NextRepos]_vars

(***************************************************************************)
(* C30.  As claimed: after any sequence of updateRepositories calls (the   *)
(* activation, the refresh command, repositories opened and closed), every *)
(* known repository has exactly one state-change listener and a standalone *)
(* client, and one change of its state fires exactly one notification.     *)
(***************************************************************************)
C30_OneListenerPerRepository ==
    /\ \A r \in Range(repositories) : listeners[r] = 1 /\ r \in simpleGitInstances
    /\ (svcCall.fn = "stateChange" /\ Contains(repositories, svcCall.root))
          => svcCall.notifications = 1

============================================================================
